---- MODULE Spec2Model ----
(***************************************************************************)
(* A model of pyimc's actor runtime: the node registry and the address     *)
(* resolution of IMCBase (src/pyimc/actors/base.py, src/pyimc/node.py)      *)
(* and the asyncio-driven dispatch core (base.py, src/pyimc/decorators.py,  *)
(* src/pyimc/network/udp.py).                                               *)
(*                                                                         *)
(* src/ holds two revisions of the actor: the current one under            *)
(* pyimc/actors/ and pyimc/network/, and a superseded one in pyimc/actor.py *)
(* and pyimc/udp.py that no longer fits pyimc/node.py (it builds           *)
(* IMCNode(msg) and reads node.heartbeat).  The model follows the current   *)
(* revision; Periodic and Subscribe come from pyimc/decorators.py, the only *)
(* revision of the decorators in src/.                                      *)
(***************************************************************************)
EXTENDS Integers, Sequences, FiniteSets, TLC

VARIABLES
    nodes,        \* IMCBase._nodes: (src, sys_name) -> IMCNode
    now,          \* time.time(), in seconds
    announce,     \* IMCBase.announce: None, or the local Announce (src, sys_name)
    announced,    \* history: keys of the peer Announces processed, while pure
    pure,         \* history: nothing but Announce/Heartbeat/time has touched the map
    malformed,    \* history: an Announce processed while pure had an unparsable service string
    last,         \* history: the last registry operation and what it returned
    qualname,     \* __qualname__ of every class of the actor's MRO
    subs,         \* IMCBase._subs: message type -> list of subscribed methods
    loop,         \* IMCBase._loop: "none", "running" or "closed"
    stopping,     \* the loop's _stopping flag, set by loop.stop()
    ready,        \* the loop's queue of callbacks that are ready to run
    todo,         \* callbacks of the current loop iteration still to run
    task,         \* the asyncio tasks: state and pending cancellation of each
    endpoint,     \* the datagram endpoints: "none", "open" or "closed"
    stops,        \* history: number of stop() calls made
    datagrams,    \* history: number of datagrams received
    raisedOnce,   \* history: tasks whose body has raised
    event,        \* history: what the last callback ran (body, dispatch)
    stack,        \* the call stack of the loop's thread, innermost frame last
    seen,         \* history: what each body found when it looked at the node map
    disk,         \* the log file <log>.lsf: its records
    cut,          \* history: records cut off the front of the log file
    side,         \* the side file <log>.pyimc_idx
    rd,           \* the LSFReader session on the log file: file handle, index, position
    archive,      \* a second log under the same root, gzip-compressed
    merged,       \* what merge() made of the logs under the root
    sender,       \* the last send call: its node, its message, what went out on UDP
    static_transports, \* IMCBase._static_transports: message type -> list of services
    requested,    \* history: the (service, type) pairs add_static_transport was called with
    timer         \* one @Periodic task on the loop's clock: its sleeps and invocation starts

regVars == <<nodes, now, announce, announced, pure, malformed, last>>

schedVars == <<qualname, subs, loop, stopping, ready, todo, task, endpoint,
               stops, datagrams, raisedOnce, event>>

logVars == <<disk, cut, side, rd, archive, merged>>

sendVars == <<sender, static_transports, requested>>

auxVars == <<timer>>

ioVars == <<stack, seen, logVars, sendVars, auxVars>>

vars == <<nodes, now, announce, announced, pure, malformed, last,
          qualname, subs, loop, stopping, ready, todo, task, endpoint,
          stops, datagrams, raisedOnce, event,
          stack, seen, disk, cut, side, rd, archive, merged, sender,
          static_transports, requested, timer>>

----------------------------------------------------------------------------
(* Bounds of the model *)

MaxTicks == 1     \* the clock advances at most MaxTicks times
MaxNodes == 2     \* at most MaxNodes entries in the node map
MaxFixed == 1     \* at most MaxFixed of them provisioned by add_node
MaxStops == 2     \* at most MaxStops calls of stop()
MaxDatagrams == 2 \* at most MaxDatagrams datagrams arrive
MaxFaulty == 1    \* at most MaxFaulty handlers raise or stop per dispatch

(* Program constants *)

LivenessTimeout == 60        \* "< 60" in _prune_nodes

imc_id == 13108              \* imc_id=0x3334, the default of IMCBase.__init__
Addrs == {1, 2, imc_id}
Names == {"a", "b"}
LocalName == "a"
Keys == Addrs \X Names
TickLen == LivenessTimeout

(* Optional float: None or a time stamp *)
None == [some |-> FALSE, v |-> 0]
Some(x) == [some |-> TRUE, v |-> x]

----------------------------------------------------------------------------
(* Service strings.  An Announce carries a ';'-separated list of URLs; a    *)
(* string is represented by the sequence of its ';'-separated segments.     *)

UrlGood == "imc+udp://10.0.0.2:6002/"
UrlBadPort == "imc+udp://10.0.0.2:6x02/"

SvcGood == <<UrlGood>>
SvcBad == <<UrlGood, UrlBadPort>>
SvcEmpty == <<"">>
ServiceStrings == {SvcGood, SvcBad}

(* urllib.parse.urlparse(u) with .scheme, .hostname, .port and .path read   *)
(* as IMCService.from_url reads them; .port raises ValueError when the port *)
(* is no integer.                                                           *)
from_url(u) ==
    CASE u = UrlGood ->
           [raised |-> FALSE, scheme |-> "imc+udp", ip |-> "10.0.0.2", port |-> 6002, param |-> <<>>]
      [] u = UrlBadPort ->
           [raised |-> TRUE, scheme |-> "imc+udp", ip |-> "10.0.0.2", port |-> 0, param |-> <<>>]
      [] OTHER ->
           [raised |-> FALSE, scheme |-> "", ip |-> "", port |-> 0, param |-> <<>>]

Service(p) == [scheme |-> p.scheme, ip |-> p.ip, port |-> p.port, param |-> p.param]

(* IMCNode.update_services: services = {}, then every segment in turn is    *)
(* parsed and appended to the list of its scheme.  The result carries the   *)
(* services collected up to the first segment that raised.                  *)
RECURSIVE update_services_from(_, _, _)
update_services_from(segs, i, acc) ==
    IF i > Len(segs) THEN [raised |-> FALSE, services |-> acc]
    ELSE LET p == from_url(segs[i]) IN
         IF p.raised THEN [raised |-> TRUE, services |-> acc]
         ELSE LET old == IF p.scheme \in DOMAIN acc THEN acc[p.scheme] ELSE <<>>
                  new == [s \in DOMAIN acc \cup {p.scheme} |->
                             IF s = p.scheme THEN Append(old, Service(p)) ELSE acc[s]]
              IN update_services_from(segs, i + 1, new)

NoServices == [s \in {} |-> <<>>]

update_services(service_string) == update_services_from(service_string, 1, NoServices)

----------------------------------------------------------------------------
(* IMCNode *)

(* self.entities = {} *)
NoEntities == [l \in {} |-> 0]

IMCNode(src, sys_name, is_fixed) ==
    [src |-> src, sys_name |-> sys_name, is_fixed |-> is_fixed,
     services_string |-> SvcEmpty, services |-> NoServices,
     entities |-> NoEntities,
     t_last_heartbeat |-> None, t_last_announce |-> None]

(* IMCNode.update_announce: the time stamp is taken first; the services are *)
(* parsed only when the string changed, and the cached string is replaced   *)
(* only after the parse returned.                                           *)
update_announce(node, services, t) ==
    LET stamped == [node EXCEPT !.t_last_announce = Some(t)] IN
    IF node.services_string # services
    THEN LET r == update_services(services) IN
         IF r.raised
         THEN [raised |-> TRUE, node |-> [stamped EXCEPT !.services = r.services]]
         ELSE [raised |-> FALSE,
               node |-> [stamped EXCEPT !.services = r.services,
                                        !.services_string = services]]
    ELSE [raised |-> FALSE, node |-> stamped]

from_announce(src, sys_name, services, t) ==
    update_announce(IMCNode(src, sys_name, FALSE), services, t)

(* a heartbeat that is not recorded on the node *)
update_heartbeat_drop(node, t) == node

(* IMCNode.update_heartbeat *)
update_heartbeat(node, t) == [node EXCEPT !.t_last_heartbeat = Some(t)]

----------------------------------------------------------------------------
(* Node identifiers as resolve_node_id distinguishes them by type(node_id) *)

IdInt(a) == [t |-> "int", src |-> a, name |-> ""]
IdStr(n) == [t |-> "str", src |-> 0, name |-> n]
IdTuple(a, n) == [t |-> "tuple", src |-> a, name |-> n]
IdMsg(a) == [t |-> "msg", src |-> a, name |-> ""]
HalfIds == {IdInt(a) : a \in Addrs} \cup {IdStr(n) : n \in Names}
NodeIds == HalfIds \cup {IdTuple(k[1], k[2]) : k \in Keys} \cup {IdMsg(a) : a \in Addrs}

EmptyMap == [k \in {} |-> None]

(* possible_nodes = [x for x in self._nodes.keys() if x[idx] == node_id] *)
possible_nodes(ns, idx, v) == {x \in DOMAIN ns : x[idx] = v}

Found(k) == [kind |-> "node", keys |-> {k}]
KeyError == [kind |-> "KeyError", keys |-> {}]
AmbiguousKeyError(choices) == [kind |-> "AmbiguousKeyError", keys |-> choices]

(* The int/str branch of resolve_node_id *)
resolve_first(ns, idx, v) ==
    LET pn == possible_nodes(ns, idx, v) IN
    IF pn = {} THEN KeyError ELSE Found(CHOOSE k \in pn : TRUE)

resolve_half(ns, idx, v) ==
    LET pn == possible_nodes(ns, idx, v) IN
    IF pn = {} THEN KeyError
    ELSE IF Cardinality(pn) > 1 THEN AmbiguousKeyError(pn)
    ELSE Found(CHOOSE k \in pn : TRUE)

(* IMCBase.resolve_node_id: the outcome is the key of the node returned, or *)
(* the exception raised (with its choices).                                 *)
resolve_node_id(ns, id) ==
    CASE id.t = "int" -> resolve_half(ns, 1, id.src)
      [] id.t = "str" -> resolve_half(ns, 2, id.name)
      [] id.t = "tuple" ->
           IF <<id.src, id.name>> \in DOMAIN ns THEN Found(<<id.src, id.name>>) ELSE KeyError
      [] id.t = "msg" -> resolve_half(ns, 1, id.src)

add_node_clobber(ns, node) ==
    [k \in {<<node.src, node.sys_name>>} |-> node]

(* IMCBase.add_node *)
add_node(ns, node) ==
    [k \in DOMAIN ns \cup {<<node.src, node.sys_name>>} |->
        IF k = <<node.src, node.sys_name>> THEN node ELSE ns[k]]

(* IMCBase.remove_node: the map after the call; unchanged when the          *)
(* resolution raised.                                                       *)
remove_node(ns, id) ==
    LET r == resolve_node_id(ns, id) IN
    IF r.kind = "node"
    THEN LET node == ns[CHOOSE k \in r.keys : TRUE] IN
         [k \in DOMAIN ns \ {<<node.src, node.sys_name>>} |-> ns[k]]
    ELSE ns

----------------------------------------------------------------------------
(* The pruning sweep *)

has_heartbeat(node, t) ==
    node.t_last_heartbeat.some /\ (t - node.t_last_heartbeat.v) < LivenessTimeout

has_announce(node, t) ==
    node.t_last_announce.some /\ (t - node.t_last_announce.v) < LivenessTimeout

timed_out_any(node, t) ==
    ~(has_heartbeat(node, t) /\ has_announce(node, t)) /\ ~node.is_fixed

(* the condition under which _prune_nodes puts a key on rm_keys *)
timed_out(node, t) ==
    ~(has_heartbeat(node, t) \/ has_announce(node, t)) /\ ~node.is_fixed

rm_keys(ns, t) == {k \in DOMAIN ns : timed_out(ns[k], t)}

(* The second loop of _prune_nodes over rm_keys in the order ord; hook[k]   *)
(* is what on_disconnect(k) does.  NotImplementedError is swallowed.  A     *)
(* KeyError or AttributeError reaches the outer except clause, whose        *)
(* e.msg raises AttributeError out of the handler and out of the sweep.     *)
HookOutcomes == {"return", "NotImplementedError", "KeyError"}

(* a sweep that notifies before it removes *)
RECURSIVE prune_loop_notify_first(_, _, _, _)
prune_loop_notify_first(ns, ord, i, hook) ==
    IF i > Len(ord)
    THEN [nodes |-> ns, raised |-> FALSE, disconnects |-> ord, present |-> <<>>]
    ELSE IF hook[ord[i]] = "KeyError"
         THEN [nodes |-> ns, raised |-> TRUE, disconnects |-> SubSeq(ord, 1, i),
               present |-> <<ord[i] \in DOMAIN ns>>]
         ELSE LET ns1 == remove_node(ns, IdTuple(ord[i][1], ord[i][2]))
                  rest == prune_loop_notify_first(ns1, ord, i + 1, hook)
              IN [rest EXCEPT !.present = <<ord[i] \in DOMAIN ns>> \o @]

(* disconnects lists the keys on_disconnect was called with; present tells  *)
(* for each call whether the key was still in the map when it was made.     *)
RECURSIVE prune_loop(_, _, _, _)
prune_loop(ns, ord, i, hook) ==
    IF i > Len(ord)
    THEN [nodes |-> ns, raised |-> FALSE, disconnects |-> ord, present |-> <<>>]
    ELSE LET ns1 == remove_node(ns, IdTuple(ord[i][1], ord[i][2])) IN
         IF hook[ord[i]] = "KeyError"
         THEN [nodes |-> ns1, raised |-> TRUE, disconnects |-> SubSeq(ord, 1, i),
               present |-> <<ord[i] \in DOMAIN ns1>>]
         ELSE LET rest == prune_loop(ns1, ord, i + 1, hook)
              IN [rest EXCEPT !.present = <<ord[i] \in DOMAIN ns1>> \o @]

Orders(S) == {o \in [1..Cardinality(S) -> S] : \A k \in S : \E i \in DOMAIN o : o[i] = k}

----------------------------------------------------------------------------
(* The registry's operations *)

NoAnnounce == [some |-> FALSE, src |-> 0, sys_name |-> ""]
LocalAnnounce == [some |-> TRUE, src |-> imc_id, sys_name |-> LocalName]

Idle == [op |-> "none"]

InitRegistry ==
    /\ nodes = EmptyMap
    /\ now = 0
    /\ announce \in {NoAnnounce, LocalAnnounce}
    /\ announced = {}
    /\ pure = TRUE
    /\ malformed = FALSE
    /\ last = Idle

(* IMCBase._recv_announce *)
RecvAnnounce(src, sys_name, services) ==
    LET key == <<src, sys_name>>
        own == announce.some /\ src = announce.src
        r == IF key \in DOMAIN nodes
             THEN update_announce(nodes[key], services, now)
             ELSE from_announce(src, sys_name, services, now)
        inserted == ~own /\ key \notin DOMAIN nodes /\ ~r.raised
    IN
    /\ (key \notin DOMAIN nodes /\ ~own) => Cardinality(DOMAIN nodes) < MaxNodes
    /\ nodes' = IF own THEN nodes
                ELSE IF key \in DOMAIN nodes THEN [nodes EXCEPT ![key] = r.node]
                ELSE IF r.raised THEN nodes
                ELSE add_node(nodes, r.node)
    /\ pure' = (pure /\ src # imc_id)
    /\ announced' = IF pure' THEN announced \cup {key} ELSE {}
    /\ malformed' = (pure' /\ (malformed \/ update_services(services).raised))
    /\ last' = [op |-> "announce", key |-> key, own |-> own, services |-> services,
                on_connect |-> inserted, raised |-> (~own /\ r.raised)]
    /\ UNCHANGED <<now, announce, schedVars, ioVars>>

(* a handler that catches KeyError only *)
heartbeat_caught_keyerror(kind) == kind = "KeyError"

(* except (AmbiguousKeyError, KeyError) in _recv_heartbeat *)
heartbeat_caught(kind) == kind \in {"AmbiguousKeyError", "KeyError"}

(* IMCBase._recv_heartbeat *)
RecvHeartbeat(src) ==
    LET r == resolve_node_id(nodes, IdMsg(src))
        key == CHOOSE k \in r.keys : TRUE
        first_heartbeat == r.kind = "node" /\ ~nodes[key].t_last_heartbeat.some
    IN
    /\ nodes' = IF r.kind = "node"
                THEN [nodes EXCEPT ![key] = update_heartbeat(nodes[key], now)]
                ELSE nodes
    /\ last' = [op |-> "heartbeat", src |-> src, result |-> r,
                on_first_heartbeat |-> first_heartbeat,
                raised |-> (r.kind # "node" /\ ~heartbeat_caught(r.kind))]
    /\ UNCHANGED <<now, announce, announced, pure, malformed, schedVars, ioVars>>

Impure ==
    /\ pure' = FALSE
    /\ announced' = {}
    /\ malformed' = FALSE

(* IMCBase._prune_nodes.  The keys are visited in the order the dict yields *)
(* them.                                                                    *)
PruneNodes ==
    /\ \E ord \in Orders(rm_keys(nodes, now)) :
       \E hook \in [rm_keys(nodes, now) -> HookOutcomes] :
          LET r == prune_loop(nodes, ord, 1, hook) IN
          /\ nodes' = r.nodes
          /\ last' = [op |-> "prune", before |-> nodes, t |-> now,
                      raised |-> r.raised, disconnects |-> r.disconnects,
                      present |-> r.present]
    /\ Impure
    /\ UNCHANGED <<now, announce, schedVars, ioVars>>

(* add_node(IMCNode(src, sys_name, is_fixed=True)): a manually provisioned peer *)
AddFixedNode(src, sys_name) ==
    /\ <<src, sys_name>> \notin DOMAIN nodes => Cardinality(DOMAIN nodes) < MaxNodes
    /\ Cardinality({k \in DOMAIN nodes \ {<<src, sys_name>>} : nodes[k].is_fixed}) < MaxFixed
    /\ nodes' = add_node(nodes, IMCNode(src, sys_name, TRUE))
    /\ Impure
    /\ last' = Idle
    /\ UNCHANGED <<now, announce, schedVars, ioVars>>

(* remove_node(key) called by the application *)
RemoveNode(id) ==
    /\ nodes' = remove_node(nodes, id)
    /\ Impure
    /\ last' = Idle
    /\ UNCHANGED <<now, announce, schedVars, ioVars>>

(* time.time() advances *)
Tick ==
    /\ now + TickLen <= MaxTicks * TickLen
    /\ now' = now + TickLen
    /\ last' = Idle
    /\ UNCHANGED <<nodes, announce, announced, pure, malformed, schedVars, ioVars>>

NextRegistry ==
    \/ \E src \in Addrs, sys_name \in Names, services \in ServiceStrings :
          RecvAnnounce(src, sys_name, services)
    \/ \E src \in Addrs : RecvHeartbeat(src)
    \/ PruneNodes
    \/ \E src \in Addrs, sys_name \in Names : AddFixedNode(src, sys_name)
    \/ \E id \in HalfIds : RemoveNode(id)
    \/ Tick

----------------------------------------------------------------------------
(* Properties of the registry *)

(* the keys of the map that carry the half-key id *)
Matching(id) ==
    {k \in DOMAIN nodes : IF id.t = "str" THEN k[2] = id.name ELSE k[1] = id.src}

Resolved(r, m) ==
    /\ (r.kind = "node") = (Cardinality(m) = 1)
    /\ (r.kind = "KeyError") = (m = {})
    /\ (r.kind = "AmbiguousKeyError") = (Cardinality(m) > 1)
    /\ r.keys = m

(* C1: resolve_node_id with an address only or a name only returns a node   *)
(* iff exactly one key matches, raises KeyError iff none matches, and       *)
(* raises AmbiguousKeyError carrying exactly the matching keys iff more     *)
(* than one matches; the same holds of the resolution a Heartbeat handler   *)
(* has just made by source address.                                         *)
C1_ResolveHalfKey ==
    /\ \A id \in HalfIds : Resolved(resolve_node_id(nodes, id), Matching(id))
    /\ last.op = "heartbeat" => Resolved(last.result, Matching(IdInt(last.src)))

C1_Witness ==
    /\ last.op = "heartbeat"
    /\ last.result.kind = "AmbiguousKeyError"
    /\ Cardinality(last.result.keys) = 2
    /\ \E n \in Names : resolve_node_id(nodes, IdStr(n)).kind = "node"

PairwiseDistinct(S) ==
    \A k1 \in S, k2 \in S : k1 # k2 => (k1[1] # k2[1] /\ k1[2] # k2[2])

OnePerPair ==
    /\ DOMAIN nodes = announced
    /\ \A k \in announced :
          /\ resolve_node_id(nodes, IdInt(k[1])) = Found(k)
          /\ resolve_node_id(nodes, IdStr(k[2])) = Found(k)

StaleStamp(ts, t) == ~ts.some \/ t - ts.v >= LivenessTimeout

StaleNode(node, t) ==
    StaleStamp(node.t_last_announce, t) /\ StaleStamp(node.t_last_heartbeat, t)

(* C3: every non-fixed node whose last announce and last heartbeat are each *)
(* absent or at least the liveness timeout old when a sweep runs is absent  *)
(* from the map when that sweep finishes.                                   *)
C3_AllStaleRemoved ==
    last.op = "prune" =>
        \A k \in DOMAIN last.before :
            (StaleNode(last.before[k], last.t) /\ ~last.before[k].is_fixed)
                => k \notin DOMAIN nodes

(* The sweep does remove them all when no on_disconnect call raises.        *)
AllStaleRemovedUnlessRaised ==
    (last.op = "prune" /\ ~last.raised) =>
        \A k \in DOMAIN last.before :
            (StaleNode(last.before[k], last.t) /\ ~last.before[k].is_fixed)
                => k \notin DOMAIN nodes

(* C4: a sweep removes a node only if the node is not fixed and both its    *)
(* last announce and its last heartbeat are stale or absent.                *)
C4_RemovedOnlyIfStale ==
    last.op = "prune" =>
        \A k \in DOMAIN last.before \ DOMAIN nodes :
            ~last.before[k].is_fixed /\ StaleNode(last.before[k], last.t)

C4_Witness ==
    /\ last.op = "prune"
    /\ DOMAIN last.before # DOMAIN nodes
    /\ \E k \in DOMAIN nodes : nodes[k].is_fixed /\ StaleNode(nodes[k], last.t)

C4_WitnessFresh ==
    /\ last.op = "prune"
    /\ DOMAIN last.before # DOMAIN nodes
    /\ \E k \in DOMAIN nodes :
          /\ ~nodes[k].is_fixed
          /\ StaleStamp(nodes[k].t_last_announce, last.t)
          /\ ~StaleStamp(nodes[k].t_last_heartbeat, last.t)

----------------------------------------------------------------------------
(* The actor class and its decorated methods.                               *)
(*                                                                         *)
(* The actor is an instance of Leaf, a subclass of Mid, a subclass of       *)
(* IMCBase.  Methods lists the decorated methods in the order               *)
(* inspect.getmembers yields them, which is the alphabetical order of       *)
(* their names ('_' sorts before the lower-case letters); cls is the class  *)
(* whose body holds the def, so the method's __qualname__ is                *)
(* qualname[cls] + "." + name.                                              *)

MRO == <<"Leaf", "Mid", "IMCBase">>
Classes == {"Leaf", "Mid", "IMCBase"}

Message == "Message"          \* pyimc.Message: the wildcard subscription
MsgTypes == {"T1", "T2"}      \* concrete message types with bindings
Garbage == "garbage"          \* bytes that do not deserialize

Methods ==
    << [name |-> "_log_any", cls |-> "IMCBase", sub |-> Message],
       [name |-> "_recv_t1", cls |-> "IMCBase", sub |-> "T1"],
       [name |-> "a_leaf_t1", cls |-> "Leaf", sub |-> "T1"],
       [name |-> "m_mid_t1", cls |-> "Mid", sub |-> "T1"],
       [name |-> "z_leaf_any", cls |-> "Leaf", sub |-> Message] >>

MethodNames == {Methods[i].name : i \in DOMAIN Methods}

(* cls_hier.index(x.__qualname__.split('.')[0]): the first position of the  *)
(* class name in the list of the MRO's qualnames                            *)
cls_hier_index(qn, c) ==
    CHOOSE i \in DOMAIN MRO :
        /\ qn[MRO[i]] = qn[c]
        /\ \A j \in DOMAIN MRO : qn[MRO[j]] = qn[c] => i <= j

sort_key(qn, m) == 0 - cls_hier_index(qn, m.cls)

(* list.sort(key=...): stable, ascending.  Insertion of x behind every      *)
(* element whose key is not greater.                                        *)
RECURSIVE insert_sorted(_, _, _)
insert_sorted(qn, sorted, x) ==
    IF sorted = <<>> THEN <<x>>
    ELSE IF sort_key(qn, sorted[Len(sorted)]) <= sort_key(qn, x)
         THEN Append(sorted, x)
         ELSE Append(insert_sorted(qn, SubSeq(sorted, 1, Len(sorted) - 1), x),
                     sorted[Len(sorted)])

RECURSIVE sort_from(_, _, _, _)
sort_from(qn, methods, i, sorted) ==
    IF i > Len(methods) THEN sorted
    ELSE sort_from(qn, methods, i + 1, insert_sorted(qn, sorted, methods[i]))

(* the methods appended to self._subs[t], in getmembers order *)
RECURSIVE collect(_, _)
collect(t, i) ==
    IF i > Len(Methods) THEN <<>>
    ELSE IF Methods[i].sub = t THEN <<Methods[i]>> \o collect(t, i + 1)
    ELSE collect(t, i + 1)

(* the list _setup_event_loop leaves in self._subs[t] *)
sorted_subs(qn, t) == sort_from(qn, collect(t, 1), 1, <<>>)

SubTypes == {Methods[i].sub : i \in DOMAIN Methods}

NoSubs == [t \in {} |-> <<>>]

_setup_subs(qn) == [t \in SubTypes |-> sorted_subs(qn, t)]

----------------------------------------------------------------------------
(* IMCBase.post_message.  out[name] is what the method does when called:    *)
(* "return", "raise" (an Exception) or "stop" (it calls self.stop() and     *)
(* returns).  The result lists the calls made in order, the locations       *)
(* passed to on_exception and the number of stop() calls.                   *)

HandlerOutcomes == {"return", "raise", "stop"}

(* the handlers of fns[from..] that raise, in order *)
RECURSIVE raising(_, _, _)
raising(fns, from, out) ==
    IF from > Len(fns) THEN <<>>
    ELSE (IF out[fns[from].name] = "raise" THEN <<fns[from].name>> ELSE <<>>)
         \o raising(fns, from + 1, out)

stopping_calls(fns, upto, out) ==
    Cardinality({i \in 1..upto : out[fns[i].name] = "stop"})

(* a loop without the try: the first handler that raises ends it *)
call_until_raise(fns, out) ==
    LET bad == {i \in DOMAIN fns : out[fns[i].name] = "raise"}
        last_call == IF bad = {} THEN Len(fns)
                     ELSE CHOOSE i \in bad : \A k \in bad : i <= k
    IN [calls |-> [i \in 1..last_call |-> fns[i].name],
        faults |-> <<>>,
        stops |-> stopping_calls(fns, last_call, out),
        raised |-> bad # {}]

(* for fn in fns: try: fn(msg) except Exception as e: self.on_exception(..) *)
(* Every handler is called; the ones that raise are reported to the hook.   *)
call_all(fns, out) ==
    [calls |-> [i \in DOMAIN fns |-> fns[i].name],
     faults |-> raising(fns, 1, out),
     stops |-> stopping_calls(fns, Len(fns), out),
     raised |-> FALSE]

(* if t in self._subs: the loop over self._subs[t] *)
call_subscribed(sb, t, out) ==
    IF t \in DOMAIN sb THEN call_all(sb[t], out)
    ELSE [calls |-> <<>>, faults |-> <<>>, stops |-> 0, raised |-> FALSE]

(* a dispatch that reaches the wildcard handlers only after typed ones *)
wildcard_if_typed(sb, t, out) ==
    IF t \in DOMAIN sb THEN call_subscribed(sb, Message, out)
    ELSE [calls |-> <<>>, faults |-> <<>>, stops |-> 0, raised |-> FALSE]

(* the second loop of post_message, over self._subs[pyimc.Message] *)
call_wildcard(sb, t, out) == call_subscribed(sb, Message, out)

(* a dispatch that looks every type up in self._subs, pyimc.Message too *)
post_message_lookup(sb, t, out) ==
    LET typed == call_subscribed(sb, t, out)
        any == call_wildcard(sb, t, out)
    IN IF typed.raised
       THEN [type |-> t, calls |-> typed.calls, faults |-> typed.faults,
             stops |-> typed.stops, raised |-> TRUE, warned |-> FALSE]
       ELSE [type |-> t,
             calls |-> typed.calls \o any.calls,
             faults |-> typed.faults \o any.faults,
             stops |-> typed.stops + any.stops,
             raised |-> any.raised,
             warned |-> (t = Message)]

(* IMCBase.post_message: the handlers of type(msg) unless that is           *)
(* pyimc.Message itself, for which a warning is logged instead; then the    *)
(* handlers of pyimc.Message                                                *)
post_message(sb, t, out) ==
    LET typed == IF t # Message
                 THEN call_subscribed(sb, t, out)
                 ELSE [calls |-> <<>>, faults |-> <<>>, stops |-> 0, raised |-> FALSE]
        any == call_wildcard(sb, t, out)
    IN IF typed.raised
       THEN [type |-> t, calls |-> typed.calls, faults |-> typed.faults,
             stops |-> typed.stops, raised |-> TRUE, warned |-> FALSE]
       ELSE [type |-> t,
             calls |-> typed.calls \o any.calls,
             faults |-> typed.faults \o any.faults,
             stops |-> typed.stops + any.stops,
             raised |-> any.raised,
             warned |-> (t = Message)]

----------------------------------------------------------------------------
(* The event loop and its tasks.                                            *)
(*                                                                         *)
(* A task is "absent" (not created), "init" (created, first step queued),   *)
(* "waiting" (suspended on a future: a sleep or the endpoint's waiter),     *)
(* "wakeup" (its future is done and the wakeup is queued) or finished:      *)
(* "done", "cancelled", "failed".  must_cancel is asyncio's _must_cancel;   *)
(* by_cancel says that the awaited future was cancelled, so the wakeup      *)
(* throws CancelledError into the coroutine.                                *)

T(kind, n) == [kind |-> kind, n |-> n]

PeriodicTasks == {T("periodic", 1), T("periodic", 2)}
DeferredTasks == {T("once", 1)}
EndpointIds == {1, 2}                  \* 1: multicast, 2: unicast IMC
Listener(ep) == T("listener", ep)      \* _task_mc, _task_imc
ListenerTasks == {Listener(ep) : ep \in EndpointIds}
ExitTasks == {T("exit", i) : i \in 1..MaxStops}
Tasks == PeriodicTasks \cup DeferredTasks \cup ListenerTasks \cup ExitTasks

(* the order in which stop() visits asyncio.Task.all_tasks().  The set's    *)
(* iteration order is arbitrary; the cancellations commute, so one order    *)
(* is kept.                                                                 *)
TaskOrder ==
    << T("periodic", 1), T("periodic", 2), T("once", 1), Listener(1), Listener(2) >>
    \o [i \in 1..MaxStops |-> T("exit", i)]

TaskState(st, mc, bc) == [st |-> st, must_cancel |-> mc, by_cancel |-> bc]
Absent == TaskState("absent", FALSE, FALSE)
NewTask == TaskState("init", FALSE, FALSE)
Waiting == TaskState("waiting", FALSE, FALSE)
Woken == TaskState("wakeup", FALSE, FALSE)
WokenByCancel == TaskState("wakeup", FALSE, TRUE)
Done == TaskState("done", FALSE, FALSE)
Cancelled == TaskState("cancelled", FALSE, FALSE)
Failed == TaskState("failed", FALSE, FALSE)

FinishedStates == {"done", "cancelled", "failed"}

Step(t) == [k |-> "step", t |-> t, type |-> ""]
Conn(ep) == [k |-> "conn", t |-> Listener(ep), type |-> ""]
Dgram(ep, ty) == [k |-> "dgram", t |-> Listener(ep), type |-> ty]

(* the part of the state that stop() works on *)
Sched == [task |-> task, ready |-> Tail(ready), stops |-> stops]

(* asyncio's Task.cancel(): a finished task is left alone; the future of a  *)
(* waiting task is cancelled, which queues the task's wakeup; any other     *)
(* task is marked to be cancelled at its next step                          *)
cancel(x) ==
    CASE x.st \in FinishedStates \cup {"absent"} -> x
      [] x.st = "waiting" -> WokenByCancel
      [] OTHER -> [x EXCEPT !.must_cancel = TRUE]

IsWaiting(tk, t) == tk[t].st = "waiting"

(* the wakeups that the cancellations queue, in the order of the visit *)
RECURSIVE wakeups(_, _)
wakeups(tk, i) ==
    IF i > Len(TaskOrder) THEN <<>>
    ELSE (IF IsWaiting(tk, TaskOrder[i]) THEN <<Step(TaskOrder[i])>> ELSE <<>>)
         \o wakeups(tk, i + 1)

(* for task in asyncio.Task.all_tasks(): task.cancel() *)
cancel_all(S) ==
    [task |-> [t \in Tasks |-> cancel(S.task[t])],
     ready |-> S.ready \o wakeups(S.task, 1),
     stops |-> S.stops]

(* asyncio.ensure_future(exit()) *)
ensure_exit(S) ==
    LET e == T("exit", S.stops + 1) IN
    [task |-> [S.task EXCEPT ![e] = NewTask],
     ready |-> Append(S.ready, Step(e)),
     stops |-> S.stops + 1]

(* a stop() that only schedules exit() *)
stop_no_cancel(S) == ensure_exit(S)

(* IMCBase.stop *)
stop(S) == ensure_exit(cancel_all(S))

RECURSIVE stop_n(_, _)
stop_n(S, n) == IF n = 0 THEN S ELSE stop_n(stop(S), n - 1)

(* what the task does after the coroutine has yielded a future to wait on:  *)
(* a pending cancellation cancels that future at once                       *)
suspend(S, t) ==
    IF S.task[t].must_cancel
    THEN [S EXCEPT !.task[t] = WokenByCancel, !.ready = Append(S.ready, Step(t))]
    ELSE [S EXCEPT !.task[t] = Waiting]

BodyOutcomes == {"return", "raise", "stop"}

(* a wrapper that survives an exception of fn() and sleeps as usual *)
periodic_fn_catch(S, t, out) ==
    suspend(IF out = "stop" THEN stop(S) ELSE S, t)

(* One turn of Periodic.add_event's periodic_fn: fn(), then the sleep. *)
periodic_fn(S, t, out) ==
    IF out = "raise" THEN [S EXCEPT !.task[t] = Failed]
    ELSE suspend(IF out = "stop" THEN stop(S) ELSE S, t)

(* The body of a deferred task, run once after its delay. *)
run_once_fn(S, t, out) ==
    LET after == IF out = "stop" THEN stop(S) ELSE S IN
    [after EXCEPT !.task[t] = IF out = "raise" THEN Failed ELSE Done]

(* a run_forever that would run a closed loop again *)
run_forever_reopen(l) == [loop |-> "running", raised |-> FALSE]

(* loop.run_forever() inside run(): a closed loop raises RuntimeError *)
run_forever(l) ==
    IF l = "closed" THEN [loop |-> "closed", raised |-> TRUE]
    ELSE [loop |-> "running", raised |-> FALSE]

Lifecycle ==
    CASE loop = "none" -> "Created"
      [] loop = "closed" -> "Stopped"
      [] loop = "running" /\ (stops > 0 \/ stopping) -> "StopRequested"
      [] OTHER -> "Running"

NoEvent == [kind |-> "none"]

(* what periodic_fn passes to on_exception: fn() stands in no try, so an    *)
(* exception of the body leaves the coroutine and the hook is not called    *)
periodic_fn_faults(t, out) == <<>>

BodyEvent(t, out) ==
    [kind |-> "body", t |-> t, out |-> out, after_stop |-> stops > 0,
     after_raise |-> t \in raisedOnce, faults |-> periodic_fn_faults(t, out),
     during |-> Lifecycle]

(* raising: the handlers called in the dispatch whose call raised *)
DispatchEvent(r, out) ==
    [kind |-> "dispatch", type |-> r.type, calls |-> r.calls, faults |-> r.faults,
     raised |-> r.raised, warned |-> r.warned,
     raising |-> {r.calls[k] : k \in {i \in DOMAIN r.calls : out[r.calls[i]] = "raise"}},
     during |-> Lifecycle]

----------------------------------------------------------------------------
(* The scheduler's actions.                                                 *)

(* self.idx: the key 'timestamp' (if has_ts) and a list of positions for    *)
(* each mgid met                                                            *)
NoOffs == [m \in {} |-> <<>>]
EmptyIdx == [has_ts |-> FALSE, ts |-> 0, offs |-> NoOffs]
Truthy(idx) == idx.has_ts \/ DOMAIN idx.offs # {}

(* the side file <log>.pyimc_idx: absent or empty, or a pickled index *)
NoSide == [exists |-> FALSE, ts |-> 0, offs |-> NoOffs]

(* the types argument of read_message: None, or a list of message types *)
NoFilter == [filter |-> FALSE, ids |-> <<>>]
Filter(ids) == [filter |-> TRUE, ids |-> ids]
(* no LSFReader yet: LSFReader.__init__ leaves f = None and idx = {}.  The   *)
(* fields where (the call an exception came out of), decoded (positions     *)
(* handed to deserialize), count (the last count_index) and found (the side *)
(* file as __enter__ met it) are history.                                   *)
NoSession ==
    [phase |-> "none", f |-> "none", err |-> "", where |-> "", use_index |-> FALSE,
     types |-> NoFilter, idx |-> EmptyIdx, mode |-> "", started |-> FALSE,
     exhausted |-> FALSE, warned |-> FALSE, pos |-> 0, rest |-> <<>>, out |-> <<>>,
     decoded |-> {},
     count |-> [mgid |-> 0, n |-> 0], found |-> NoSide]

NoArchive == [exists |-> FALSE, recs |-> <<>>, eof |-> TRUE]
NotMerged == [called |-> FALSE, written |-> FALSE, err |-> "", recs |-> <<>>]

LogIdle ==
    /\ disk = <<>>
    /\ cut = 0
    /\ side = NoSide
    /\ rd = NoSession
    /\ archive = NoArchive
    /\ merged = NotMerged

SerialIdle ==
    /\ stack = <<>>
    /\ seen = {}

(* no send call has been made *)
NoSender ==
    [call |-> "none", node |-> <<>>, interfaces |-> {}, set_timestamp |-> FALSE, t |-> 0,
     before |-> <<>>, msg |-> <<>>, sent |-> <<>>, result |-> "none", logged |-> 0]

(* self._static_transports = {} *)
NoTransports == [t \in {} |-> <<>>]

SendIdle ==
    /\ sender = NoSender
    /\ static_transports = NoTransports
    /\ requested = {}

(* no periodic task has been registered on the clock *)
NoTimer ==
    [time |-> 0, registered |-> FALSE, at |-> 0, clock |-> 0, wake |-> 0,
     n |-> 0, start |-> 0, prev |-> 0, d |-> 0, dprev |-> 0,
     done |-> FALSE, result |-> "none", queried |-> {}, without |-> {}]

AuxIdle == timer = NoTimer

IoIdle ==
    /\ SerialIdle
    /\ LogIdle
    /\ SendIdle
    /\ AuxIdle

RegistryIdle ==
    /\ nodes = EmptyMap
    /\ now = 0
    /\ announce = NoAnnounce
    /\ announced = {}
    /\ pure = TRUE
    /\ malformed = FALSE
    /\ last = Idle

QualnameChoices ==
    { [c \in Classes |-> c],
      [c \in Classes |-> IF c = "Leaf" THEN "Mid" ELSE c] }

Arriving == MsgTypes \cup {Message, Garbage}   \* what a datagram can hold

InitSched ==
    /\ RegistryIdle
    /\ IoIdle
    /\ qualname \in QualnameChoices
    /\ subs = NoSubs
    /\ loop = "none"
    /\ stopping = FALSE
    /\ ready = <<>>
    /\ todo = 0
    /\ task = [t \in Tasks |-> Absent]
    /\ endpoint = [ep \in EndpointIds |-> "none"]
    /\ stops = 0
    /\ datagrams = 0
    /\ raisedOnce = {}
    /\ event = NoEvent

(* run() on a new actor: _setup_event_loop, then run_forever *)
Run ==
    /\ loop = "none"
    /\ subs' = _setup_subs(qualname)
    /\ task' = [t \in Tasks |-> IF t.kind = "exit" THEN Absent ELSE NewTask]
    /\ ready' = << Step(T("periodic", 1)), Step(T("periodic", 2)), Step(T("once", 1)),
                   Step(Listener(1)), Step(Listener(2)) >>
    /\ loop' = run_forever(loop).loop
    /\ event' = NoEvent
    /\ UNCHANGED <<regVars, ioVars, qualname, stopping, todo, endpoint, stops, datagrams, raisedOnce>>

(* run() once more after it has returned *)
RunAgain ==
    /\ loop = "closed"
    /\ loop' = run_forever(loop).loop
    /\ event' = [kind |-> "run", raised |-> run_forever(loop).raised]
    /\ UNCHANGED <<regVars, ioVars, qualname, subs, stopping, ready, todo, task, endpoint, stops,
                   datagrams, raisedOnce>>

Polling == loop = "running" /\ todo = 0 /\ ~stopping

(* the sleep of a periodic or deferred task runs out *)
FireTimer(t) ==
    /\ Polling
    /\ t \in PeriodicTasks \cup DeferredTasks
    /\ task[t].st = "waiting"
    /\ task' = [task EXCEPT ![t] = Woken]
    /\ ready' = Append(ready, Step(t))
    /\ UNCHANGED <<regVars, ioVars, qualname, subs, loop, stopping, todo, endpoint, stops, datagrams,
                   raisedOnce, event>>

(* a datagram arrives on an open endpoint *)
Receive(ep, ty) ==
    /\ Polling
    /\ endpoint[ep] = "open"
    /\ datagrams < MaxDatagrams
    /\ datagrams' = datagrams + 1
    /\ ready' = Append(ready, Dgram(ep, ty))
    /\ UNCHANGED <<regVars, ioVars, qualname, subs, loop, stopping, todo, task, endpoint, stops,
                   raisedOnce, event>>

(* _run_once: the callbacks ready now are the ones this iteration runs *)
BeginIteration ==
    /\ Polling
    /\ ready # <<>>
    /\ todo' = Len(ready)
    /\ UNCHANGED <<regVars, ioVars, qualname, subs, loop, stopping, ready, task, endpoint, stops,
                   datagrams, raisedOnce, event>>

(* run_forever returns after the iteration in which loop.stop() ran; run()  *)
(* closes the loop                                                          *)
EndLoop ==
    /\ loop = "running" /\ todo = 0 /\ stopping
    /\ loop' = "closed"
    /\ ready' = <<>>
    /\ event' = NoEvent
    /\ UNCHANGED <<regVars, ioVars, qualname, subs, stopping, todo, task, endpoint, stops, datagrams,
                   raisedOnce>>

Running(k, kind) ==
    /\ loop = "running" /\ todo > 0
    /\ Head(ready).k = k
    /\ Head(ready).t.kind = kind

Apply(S) ==
    /\ task' = S.task
    /\ ready' = S.ready
    /\ stops' = S.stops

StepPeriodic ==
    /\ Running("step", "periodic")
    /\ todo' = todo - 1
    /\ LET t == Head(ready).t IN
       IF task[t].must_cancel \/ task[t].by_cancel
       THEN /\ Apply([Sched EXCEPT !.task[t] = Cancelled])
            /\ event' = NoEvent
            /\ UNCHANGED raisedOnce
       ELSE \E out \in BodyOutcomes :
            /\ out = "stop" => stops < MaxStops
            /\ Apply(periodic_fn(Sched, t, out))
            /\ event' = BodyEvent(t, out)
            /\ raisedOnce' = IF out = "raise" THEN raisedOnce \cup {t} ELSE raisedOnce
    /\ UNCHANGED <<regVars, ioVars, qualname, subs, loop, stopping, endpoint, datagrams>>

StepDeferred ==
    /\ Running("step", "once")
    /\ todo' = todo - 1
    /\ LET t == Head(ready).t IN
       IF task[t].must_cancel \/ task[t].by_cancel
       THEN /\ Apply([Sched EXCEPT !.task[t] = Cancelled])
            /\ event' = NoEvent
            /\ UNCHANGED raisedOnce
       ELSE IF task[t].st = "init"
       THEN /\ Apply(suspend(Sched, t))
            /\ event' = NoEvent
            /\ UNCHANGED raisedOnce
       ELSE \E out \in BodyOutcomes :
            /\ out = "stop" => stops < MaxStops
            /\ Apply(run_once_fn(Sched, t, out))
            /\ event' = BodyEvent(t, out)
            /\ raisedOnce' = IF out = "raise" THEN raisedOnce \cup {t} ELSE raisedOnce
    /\ UNCHANGED <<regVars, ioVars, qualname, subs, loop, stopping, endpoint, datagrams>>

(* the task of create_datagram_endpoint: it makes the transport, which      *)
(* queues connection_made and the waiter's result, and waits for the        *)
(* waiter.  Cancelled while waiting, it closes the transport on the         *)
(* Python builds whose create_datagram_endpoint does so, and leaves it      *)
(* open on the others.                                                      *)
StepListener ==
    /\ Running("step", "listener")
    /\ todo' = todo - 1
    /\ LET t == Head(ready).t
           ep == t.n
       IN
       IF task[t].must_cancel \/ task[t].by_cancel
       THEN /\ Apply([Sched EXCEPT !.task[t] = Cancelled])
            /\ \E e \in {endpoint[ep], IF endpoint[ep] = "open" THEN "closed" ELSE endpoint[ep]} :
                   endpoint' = [endpoint EXCEPT ![ep] = e]
       ELSE IF task[t].st = "init"
       THEN /\ Apply([Sched EXCEPT !.task[t] = Waiting,
                                   !.ready = Append(Tail(ready), Conn(ep))])
            /\ UNCHANGED endpoint
       ELSE /\ Apply([Sched EXCEPT !.task[t] = Done])
            /\ UNCHANGED endpoint
    /\ event' = NoEvent
    /\ UNCHANGED <<regVars, ioVars, qualname, subs, loop, stopping, datagrams, raisedOnce>>

(* the coroutine exit() of stop() *)
StepExit ==
    /\ Running("step", "exit")
    /\ todo' = todo - 1
    /\ LET t == Head(ready).t IN
       IF task[t].must_cancel \/ task[t].by_cancel
       THEN /\ Apply([Sched EXCEPT !.task[t] = Cancelled])
            /\ UNCHANGED stopping
       ELSE /\ Apply([Sched EXCEPT !.task[t] = Done])
            /\ stopping' = TRUE
    /\ event' = NoEvent
    /\ UNCHANGED <<regVars, ioVars, qualname, subs, loop, endpoint, datagrams, raisedOnce>>

(* IMCProtocolUDP.connection_made, and the waiter's result *)
ConnectionMade ==
    /\ Running("conn", "listener")
    /\ todo' = todo - 1
    /\ LET t == Head(ready).t IN
       /\ endpoint' = [endpoint EXCEPT ![t.n] = "open"]
       /\ IF task[t].st = "waiting"
          THEN Apply([Sched EXCEPT !.task[t] = Woken,
                                   !.ready = Append(Tail(ready), Step(t))])
          ELSE Apply(Sched)
    /\ event' = NoEvent
    /\ UNCHANGED <<regVars, ioVars, qualname, subs, loop, stopping, datagrams, raisedOnce>>

(* what each handler does during one dispatch: the handlers that are not    *)
(* called return, and at most MaxFaulty of the others raise or stop         *)
AllReturn == [n \in MethodNames |-> "return"]

RECURSIVE Faulty(_, _)
Faulty(called, k) ==
    IF k = 0 THEN {AllReturn}
    ELSE LET fewer == Faulty(called, k - 1) IN
         fewer \cup {[out EXCEPT ![n] = o] :
                         out \in fewer, n \in called, o \in HandlerOutcomes}

Silent(called) == Faulty(called, MaxFaulty)

HandlerNames(fns) == {fns[i].name : i \in DOMAIN fns}

Subscribed(sb, ty) ==
    (IF ty \in DOMAIN sb THEN HandlerNames(sb[ty]) ELSE {})
    \cup (IF Message \in DOMAIN sb THEN HandlerNames(sb[Message]) ELSE {})

(* IMCProtocolUDP.datagram_received *)
DatagramReceived ==
    /\ Running("dgram", "listener")
    /\ todo' = todo - 1
    /\ LET ty == Head(ready).type IN
       IF ty = Garbage
       THEN /\ Apply(Sched)
            /\ event' = NoEvent
       ELSE \E out \in Silent(Subscribed(subs, ty)) :
            LET r == post_message(subs, ty, out) IN
            /\ stops + r.stops <= MaxStops
            /\ Apply(stop_n(Sched, r.stops))
            /\ event' = DispatchEvent(r, out)
    /\ UNCHANGED <<regVars, ioVars, qualname, subs, loop, stopping, endpoint, datagrams, raisedOnce>>

(* Ctrl-C during run_forever: run() cancels every task, lets each finish    *)
(* its cancellation and closes the loop.  The step is taken as a whole:     *)
(* callbacks that run_until_complete runs meanwhile are left out.           *)
KeyboardInterrupt ==
    /\ loop = "running"
    /\ task' = [t \in Tasks |->
                   IF task[t].st \in FinishedStates \cup {"absent"} THEN task[t]
                   ELSE Cancelled]
    /\ loop' = "closed"
    /\ ready' = <<>>
    /\ todo' = 0
    /\ event' = NoEvent
    /\ UNCHANGED <<regVars, ioVars, qualname, subs, stopping, endpoint, stops, datagrams, raisedOnce>>

LoopStep ==
    \/ BeginIteration
    \/ EndLoop
    \/ StepPeriodic
    \/ StepDeferred
    \/ StepListener
    \/ StepExit
    \/ ConnectionMade
    \/ DatagramReceived

NextSched ==
    \/ Run
    \/ RunAgain
    \/ \E t \in PeriodicTasks \cup DeferredTasks : FireTimer(t)
    \/ \E ep \in EndpointIds, ty \in Arriving : Receive(ep, ty)
    \/ BeginIteration
    \/ EndLoop
    \/ StepPeriodic
    \/ StepDeferred
    \/ StepListener
    \/ StepExit
    \/ ConnectionMade
    \/ DatagramReceived
    \/ KeyboardInterrupt

SchedIdle ==
    /\ qualname = [c \in Classes |-> c]
    /\ subs = NoSubs
    /\ loop = "none"
    /\ stopping = FALSE
    /\ ready = <<>>
    /\ todo = 0
    /\ task = [t \in Tasks |-> Absent]
    /\ endpoint = [ep \in EndpointIds |-> "none"]
    /\ stops = 0
    /\ datagrams = 0
    /\ raisedOnce = {}
    /\ event = NoEvent

InitRegistryActor ==
    /\ InitRegistry
    /\ SchedIdle
    /\ IoIdle

SpecRegistry == InitRegistryActor /\ [][NextRegistry]_vars

SpecSched == InitSched /\ [][NextSched]_vars

(* The runs on which progress is checked: one actor class, and datagrams    *)
(* of the type that has handlers.  The loop keeps iterating while it has    *)
(* callbacks to run or has been told to stop.                               *)
InitSchedFair ==
    /\ RegistryIdle
    /\ SchedIdle
    /\ IoIdle

NextSchedFair ==
    \/ Run
    \/ RunAgain
    \/ \E t \in PeriodicTasks \cup DeferredTasks : FireTimer(t)
    \/ \E ep \in EndpointIds : Receive(ep, "T1")
    \/ BeginIteration
    \/ EndLoop
    \/ StepPeriodic
    \/ StepDeferred
    \/ StepListener
    \/ StepExit
    \/ ConnectionMade
    \/ DatagramReceived
    \/ KeyboardInterrupt

SpecSchedFair ==
    /\ InitSchedFair
    /\ [][NextSchedFair]_vars
    /\ WF_vars(LoopStep)

----------------------------------------------------------------------------
(* Properties of the dispatch *)

MethodOf(n) == CHOOSE m \in {Methods[i] : i \in DOMAIN Methods} : m.name = n

MroIndex(c) == CHOOSE i \in DOMAIN MRO : MRO[i] = c

(* class a is a proper ancestor of class d *)
Ancestor(a, d) == MroIndex(a) > MroIndex(d)

Dispatched == event.kind = "dispatch"

(* C5: for every delivered message and every two handlers subscribed to the *)
(* same type, one declared on an ancestor class and one on a more derived   *)
(* class, post_message invokes the ancestor's handler first.                *)
C5_BaseBeforeDerived ==
    Dispatched =>
        \A i, j \in DOMAIN event.calls :
            LET h1 == MethodOf(event.calls[i])
                h2 == MethodOf(event.calls[j])
            IN (h1.sub = h2.sub /\ Ancestor(h1.cls, h2.cls)) => i < j

(* the same order, for actors whose classes all have different names *)
BaseBeforeDerivedUnlessHomonym ==
    (\A c, d \in Classes : qualname[c] = qualname[d] => c = d) => C5_BaseBeforeDerived

(* a dispatch in which a handler raises, and none calls stop(), only takes  *)
(* the datagram's callback off the queue                                    *)
FaultyDispatchStep ==
    (Running("dgram", "listener") /\ todo' = todo - 1
        /\ event'.kind = "dispatch" /\ event'.faults # <<>> /\ stops' = stops)
    => (ready' = Tail(ready) /\ UNCHANGED <<task, endpoint, loop, stopping, subs>>)

(* C6: when a handler raises during the dispatch of a message of type T,    *)
(* every handler subscribed to T and every wildcard handler has still been  *)
(* called once for that message and the dispatch returns; the step changes  *)
(* nothing else of the scheduler, so tasks and later datagrams go on.       *)
C6_FaultIsolation ==
    /\ [](Dispatched /\ event.type \in MsgTypes =>
            /\ ~event.raised
            /\ Len(event.calls) = Cardinality(Subscribed(subs, event.type))
            /\ {event.calls[i] : i \in DOMAIN event.calls} = Subscribed(subs, event.type)
            /\ loop = "running")
    /\ [][FaultyDispatchStep]_vars

C6_Witness ==
    /\ Dispatched
    /\ event.type = "T1"
    /\ event.faults = <<"_recv_t1">>
    /\ Len(event.calls) = 5
    /\ datagrams < MaxDatagrams
    /\ \E t \in PeriodicTasks : task[t].st = "waiting"

(* C7: a message of a concrete type T reaches every wildcard handler, after *)
(* every handler subscribed to T, also when no handler is subscribed to T.  *)
C7_WildcardAfterTyped ==
    Dispatched /\ event.type \in MsgTypes =>
        /\ \A i \in DOMAIN subs[Message] :
              \E k \in DOMAIN event.calls :
                  /\ event.calls[k] = subs[Message][i].name
                  /\ \A j \in DOMAIN event.calls :
                        MethodOf(event.calls[j]).sub = event.type => j < k
        /\ event.type \in DOMAIN subs =>
              \A i \in DOMAIN subs[event.type] :
                  \E k \in DOMAIN event.calls : event.calls[k] = subs[event.type][i].name

C7_Witness ==
    /\ Dispatched
    /\ event.type = "T2"
    /\ "T2" \notin DOMAIN subs
    /\ Len(event.calls) = 2

----------------------------------------------------------------------------
(* Properties of the tasks and of the shutdown *)

BodyStarted == event.kind = "body"

CancelRequested(t) ==
    task[t].st = "cancelled" \/ task[t].must_cancel \/ task[t].by_cancel

Finished(t) == task[t].st \in FinishedStates

(* the step in which the body of a periodic task raises *)
RaisingBodyStep ==
    (Running("step", "periodic") /\ todo' = todo - 1
        /\ event'.kind = "body" /\ event'.out = "raise")
    => (/\ task'[Head(ready).t].st = "failed"
        /\ \A u \in Tasks \ {Head(ready).t} : task'[u] = task[u]
        /\ ready' = Tail(ready)
        /\ UNCHANGED <<endpoint, loop, stopping, stops, subs>>)

(* C8: an exception escaping the body of a periodic task ends that task     *)
(* only: its body is not invoked again, and the step in which it raises     *)
(* changes no other task, no endpoint, no subscription and not the loop,    *)
(* so the other periodic tasks and the dispatch go on as before.            *)
C8_PeriodicFaultEndsTask ==
    /\ [](BodyStarted => ~event.after_raise)
    /\ [][RaisingBodyStep]_vars

C8_Witness ==
    /\ T("periodic", 1) \in raisedOnce
    /\ task[T("periodic", 1)].st = "failed"
    /\ BodyStarted /\ event.t = T("periodic", 2) /\ event.out = "return"
    /\ loop = "running"

(* C9 as stated: once stop() has been called, every periodic or deferred    *)
(* task is finished or cancelled and both listener tasks are cancelled.     *)
C9_Original ==
    stops > 0 =>
        /\ \A t \in PeriodicTasks \cup DeferredTasks : Finished(t) \/ CancelRequested(t)
        /\ \A t \in ListenerTasks : CancelRequested(t)

StopKeepsEndpoints == stops' > stops => endpoint' = endpoint

(* C9: once stop() has been called, every periodic, deferred or listener    *)
(* task that has not finished is cancelled, before loop.stop() runs; stop() *)
(* leaves the endpoints as they are; no task body starts after the          *)
(* call; and the loop is closed in the end.                                 *)
C9_StopCancels ==
    /\ [](stops > 0 =>
            \A t \in PeriodicTasks \cup DeferredTasks \cup ListenerTasks :
                Finished(t) \/ CancelRequested(t))
    /\ [](BodyStarted => ~event.after_stop)
    /\ [][StopKeepsEndpoints]_vars
    /\ (stops > 0) ~> (loop = "closed")

C9_Witness ==
    /\ stops > 0 /\ stopping /\ loop = "closed"
    /\ task[T("periodic", 1)].st = "cancelled"
    /\ task[T("periodic", 2)].st = "cancelled"
    /\ task[Listener(1)].st = "done" /\ endpoint[1] = "open"

(* a datagram is dispatched to the handlers after stop() *)
DispatchAfterStop == Dispatched /\ event.during = "StopRequested" /\ event.calls # <<>>

Rank ==
    CASE Lifecycle = "Created" -> 0
      [] Lifecycle = "Running" -> 1
      [] Lifecycle = "StopRequested" -> 2
      [] Lifecycle = "Stopped" -> 3

(* a step of an actor that is Created or Stopped runs no callback: at most  *)
(* run() creates the tasks                                                  *)
QuietUnlessRunning ==
    Lifecycle \in {"Created", "Stopped"} =>
        (/\ event'.kind \notin {"body", "dispatch"}
         /\ UNCHANGED <<endpoint, stops, datagrams, raisedOnce, stopping>>
         /\ \A t \in Tasks :
               task'[t] = task[t] \/ (Lifecycle = "Created" /\ task'[t] = NewTask))

(* C10: the lifecycle only moves forward along Created, Running,            *)
(* StopRequested, Stopped; a stopped actor stays stopped, also when run()   *)
(* is called again; and no handler, task body or listener callback runs     *)
(* while the actor is Created or Stopped.                                   *)
C10_Lifecycle ==
    /\ [][Rank' >= Rank]_vars
    /\ [](Dispatched \/ BodyStarted => event.during \in {"Running", "StopRequested"})
    /\ [][QuietUnlessRunning]_vars

C10_Witness ==
    /\ Lifecycle = "Stopped"
    /\ stops > 0
    /\ event.kind = "run" /\ event.raised


----------------------------------------------------------------------------
(* The loop's thread, one statement at a time.                              *)
(*                                                                         *)
(* Every callback is called by the thread of run_forever: the steps of the  *)
(* tasks, connection_made and datagram_received.  datagram_received calls   *)
(* post_message, which calls the subscribed methods one after the other;    *)
(* a step of periodic_fn calls fn() and then yields a sleep.  Nothing in    *)
(* the package starts a thread.  The stack holds the frames of the calls    *)
(* in progress; only the innermost frame runs.  T1 stands for Announce:     *)
(* _recv_t1 is the method IMCBase subscribes itself (_recv_announce), the   *)
(* peer is (1, "a"), and the other methods and the task bodies read the     *)
(* node map.  No method calls stop() here.                                  *)

SvcTwo == <<UrlGood, UrlGood>>
Peer == <<1, "a">>

Frame(kind, name, t, pc, arg) ==
    [kind |-> kind, name |-> name, t |-> t, pc |-> pc, arg |-> arg]

Top == stack[Len(stack)]
Pop == SubSeq(stack, 1, Len(stack) - 1)

IsBody(f) == f.kind \in {"handler", "task"}
Bodies(stk) == {i \in DOMAIN stk : IsBody(stk[i])}

(* a node whose parsed services are the ones of its cached service string *)
Consistent(ns) ==
    \A k \in DOMAIN ns :
        ns[k].services = update_services(ns[k].services_string).services

(* a loop that hands the callback to another thread and goes on *)
handle_run_detached(stk) == TRUE

(* _run_once: handle._run() is a call; the next callback of the iteration   *)
(* is taken when it has returned                                            *)
handle_run_returned(stk) == stk = <<>>

Called == [task |-> task, ready |-> ready, stops |-> stops]

SerialListener ==
    /\ handle_run_returned(stack)
    /\ StepListener

SerialConnection ==
    /\ handle_run_returned(stack)
    /\ ConnectionMade

(* a step of periodic_fn: fn() is called *)
EnterPeriodic ==
    /\ handle_run_returned(stack)
    /\ ready # <<>>
    /\ Running("step", "periodic")
    /\ stack' = Append(stack, Frame("task", "periodic", Head(ready).t, 0, <<>>))
    /\ ready' = Tail(ready)
    /\ UNCHANGED <<regVars, qualname, subs, loop, stopping, todo, task, endpoint, stops,
                   datagrams, raisedOnce, event, seen, logVars, sendVars, auxVars>>

(* a step of a deferred task: the first one starts the delay, the second    *)
(* one calls the body                                                       *)
EnterDeferred ==
    /\ handle_run_returned(stack)
    /\ ready # <<>>
    /\ Running("step", "once")
    /\ LET t == Head(ready).t IN
       IF task[t].st = "init"
       THEN /\ Apply(suspend(Sched, t))
            /\ todo' = todo - 1
            /\ UNCHANGED stack
       ELSE /\ stack' = Append(stack, Frame("task", "once", t, 0, <<>>))
            /\ ready' = Tail(ready)
            /\ UNCHANGED <<todo, task, stops>>
    /\ UNCHANGED <<regVars, qualname, subs, loop, stopping, endpoint, datagrams,
                   raisedOnce, event, seen, logVars, sendVars, auxVars>>

(* datagram_received: the packet deserializes and post_message is called;   *)
(* the frame keeps the methods still to be called                           *)
EnterDispatch ==
    /\ handle_run_returned(stack)
    /\ ready # <<>>
    /\ Running("dgram", "listener")
    /\ stack' = Append(stack, Frame("dispatch", "post_message", Head(ready).t, 0,
                                    post_message(subs, Head(ready).type, AllReturn).calls))
    /\ ready' = Tail(ready)
    /\ UNCHANGED <<regVars, qualname, subs, loop, stopping, todo, task, endpoint, stops,
                   datagrams, raisedOnce, event, seen, logVars, sendVars, auxVars>>

(* fn(msg) in the loops of post_message *)
CallHandler ==
    /\ stack # <<>>
    /\ Top.kind = "dispatch"
    /\ Top.arg # <<>>
    /\ \E services \in {SvcGood, SvcTwo} :
          stack' = Append([stack EXCEPT ![Len(stack)].arg = Tail(Top.arg)],
                          Frame("handler", Head(Top.arg), Top.t, 0,
                                IF Head(Top.arg) = "_recv_t1" THEN services ELSE <<>>))
    /\ UNCHANGED <<regVars, schedVars, seen, logVars, sendVars, auxVars>>

(* a body other than _recv_t1 reads the node map *)
Look ==
    /\ stack # <<>>
    /\ IsBody(Top)
    /\ Top.name # "_recv_t1"
    /\ Top.pc = 0
    /\ seen' = seen \cup {[by |-> Top.name,
                           torn |-> ~Consistent(nodes),
                           others |-> Cardinality(Bodies(stack)) - 1]}
    /\ stack' = [stack EXCEPT ![Len(stack)].pc = 1]
    /\ UNCHANGED <<regVars, schedVars, logVars, sendVars, auxVars>>

(* _recv_announce, statement by statement.  A new key is inserted with the  *)
(* node that from_announce has built.  A known node is updated in place by  *)
(* update_announce: the time stamp, then in update_services the services    *)
(* are emptied and filled again, then the service string is replaced.       *)
RecvStep ==
    /\ stack # <<>>
    /\ Top.name = "_recv_t1"
    /\ Top.pc < 4
    /\ LET services == Top.arg
           goto(pc) == [stack EXCEPT ![Len(stack)].pc = pc]
       IN
       CASE Top.pc = 0 /\ Peer \notin DOMAIN nodes ->
              /\ nodes' = add_node(nodes, from_announce(Peer[1], Peer[2], services, now).node)
              /\ stack' = goto(4)
         [] Top.pc = 0 /\ Peer \in DOMAIN nodes ->
              /\ nodes' = [nodes EXCEPT ![Peer].t_last_announce = Some(now)]
              /\ stack' = goto(IF nodes[Peer].services_string # services THEN 1 ELSE 4)
         [] Top.pc = 1 ->
              /\ nodes' = [nodes EXCEPT ![Peer].services = NoServices]
              /\ stack' = goto(2)
         [] Top.pc = 2 ->
              /\ nodes' = [nodes EXCEPT ![Peer].services = update_services(services).services]
              /\ stack' = goto(3)
         [] Top.pc = 3 ->
              /\ nodes' = [nodes EXCEPT ![Peer].services_string = services]
              /\ stack' = goto(4)
    /\ UNCHANGED <<now, announce, announced, pure, malformed, last, schedVars, seen, logVars, sendVars, auxVars>>

AtReturn(f) == IF f.name = "_recv_t1" THEN f.pc = 4 ELSE f.pc = 1

(* a subscribed method returns to post_message *)
Return ==
    /\ stack # <<>>
    /\ Top.kind = "handler"
    /\ AtReturn(Top)
    /\ stack' = Pop
    /\ UNCHANGED <<regVars, schedVars, seen, logVars, sendVars, auxVars>>

(* the body of a task returns: periodic_fn yields its sleep, a deferred     *)
(* task is done                                                             *)
TaskReturn ==
    /\ stack # <<>>
    /\ Top.kind = "task"
    /\ AtReturn(Top)
    /\ stack' = Pop
    /\ Apply(IF Top.name = "periodic"
             THEN periodic_fn(Called, Top.t, "return")
             ELSE run_once_fn(Called, Top.t, "return"))
    /\ todo' = todo - 1
    /\ UNCHANGED <<regVars, qualname, subs, loop, stopping, endpoint, datagrams,
                   raisedOnce, event, seen, logVars, sendVars, auxVars>>

(* post_message has called every method; datagram_received returns *)
EndDispatch ==
    /\ stack # <<>>
    /\ Top.kind = "dispatch"
    /\ Top.arg = <<>>
    /\ stack' = Pop
    /\ todo' = todo - 1
    /\ UNCHANGED <<regVars, qualname, subs, loop, stopping, ready, task, endpoint, stops,
                   datagrams, raisedOnce, event, seen, logVars, sendVars, auxVars>>

InitSerial ==
    /\ RegistryIdle
    /\ SchedIdle
    /\ IoIdle

NextSerial ==
    \/ Run
    \/ \E t \in PeriodicTasks \cup DeferredTasks : FireTimer(t)
    \/ \E ep \in EndpointIds : Receive(ep, "T1")
    \/ BeginIteration
    \/ SerialListener
    \/ SerialConnection
    \/ EnterPeriodic
    \/ EnterDeferred
    \/ EnterDispatch
    \/ CallHandler
    \/ Look
    \/ RecvStep
    \/ Return
    \/ TaskReturn
    \/ EndDispatch

SpecSerial == InitSerial /\ [][NextSerial]_vars

(* C11: at most one subscribed method or task body is executing at any      *)
(* instant, and no body that reads the node map finds it in the middle of   *)
(* another body's update: whenever a body looks, it is the only body on     *)
(* the stack and every node's services are those of its service string.     *)
C11_Serialized ==
    /\ Cardinality(Bodies(stack)) <= 1
    /\ \A o \in seen : ~o.torn /\ o.others = 0

(* _recv_announce is between two statements of an update while the wakeup   *)
(* of a periodic task is queued, and some body has read the map before      *)
C11_Witness ==
    /\ stack # <<>>
    /\ Top.name = "_recv_t1"
    /\ Top.pc \in {2, 3}
    /\ ~Consistent(nodes)
    /\ \E i \in DOMAIN ready : ready[i] = Step(T("periodic", 1))
    /\ \E o \in seen : o.by = "periodic"


----------------------------------------------------------------------------
(* LSF logs (pyimc/lsf.py).                                                 *)
(*                                                                         *)
(* A log file is a sequence of records: a header of HeaderSize bytes (sync, *)
(* mgid, size, timestamp, ...), the payload of header.size bytes and a      *)
(* footer of FooterSize bytes.  The file is kept as the sequence of its     *)
(* records; file positions are byte offsets, computed from the sizes as     *)
(* the reader computes them.  A record with bad = TRUE has a payload that   *)
(* pyimc.Packet.deserialize rejects; sync = FALSE is a header whose first   *)
(* two bytes are not the sync number; lost is the number of bytes missing   *)
(* at the end of the record (the file was cut inside it).                   *)

MaxRecords == 3              \* records in a log file

HeaderSize == 20             \* ctypes.sizeof(IMCHeader)
FooterSize == 2              \* ctypes.sizeof(IMCFooter)

MsgIds == {1, 2}             \* mgid of the two message types in the logs
Stamps == {1, 2}             \* header.timestamp

(* the payload of a message of each type: type 1 has no fields, type 2 one  *)
(* byte                                                                     *)
PayloadOf(mgid) == IF mgid = 1 THEN <<>> ELSE <<9>>

Record(mgid, timestamp, payload, bad) ==
    [sync |-> TRUE, mgid |-> mgid, timestamp |-> timestamp, payload |-> payload,
     bad |-> bad, lost |-> 0]

(* what pyimc.Packet.serialize writes *)
Written == {Record(m, t, PayloadOf(m), FALSE) : m \in MsgIds, t \in Stamps}

(* a record of type 2 whose payload does not decode *)
Malformed == {Record(2, 1, PayloadOf(2), TRUE)}

(* the message pyimc.Packet.deserialize returns for the bytes of a record *)
Msg(r) == [mgid |-> r.mgid, timestamp |-> r.timestamp, payload |-> r.payload]

(* the bytes a record announces, and the bytes of it that are in the file *)
FullLen(r) == HeaderSize + Len(r.payload) + FooterSize
RecLen(r) == FullLen(r) - r.lost

(* offset of the i-th record; start(file, Len(file) + 1) is the file's size *)
RECURSIVE start(_, _)
start(file, i) == IF i = 1 THEN 0 ELSE start(file, i - 1) + RecLen(file[i - 1])

FileLen(file) == start(file, Len(file) + 1)

(* the record that begins at pos, 0 if none does *)
at(file, pos) ==
    IF \E i \in DOMAIN file : start(file, i) = pos
    THEN CHOOSE i \in DOMAIN file : start(file, i) = pos
    ELSE 0

(* LSFReader.peek_header with the file at pos: RuntimeError when fewer than *)
(* HeaderSize bytes are left.  Bytes that are not the start of a record do  *)
(* not carry the sync number.                                               *)
peek_header(file, pos) ==
    IF FileLen(file) - pos < HeaderSize
    THEN [raised |-> TRUE, sync |-> FALSE, mgid |-> 0, size |-> 0, timestamp |-> 0]
    ELSE IF at(file, pos) # 0
    THEN LET r == file[at(file, pos)] IN
         [raised |-> FALSE, sync |-> r.sync, mgid |-> r.mgid, size |-> Len(r.payload),
          timestamp |-> r.timestamp]
    ELSE [raised |-> FALSE, sync |-> FALSE, mgid |-> 0, size |-> 0, timestamp |-> 0]

(* b = self.f.read(n) at pos, then pyimc.Packet.deserialize(b): the message *)
(* when the bytes are exactly one well-formed record                        *)
deserialize(file, pos, n) ==
    LET i == at(file, pos) IN
    IF i # 0 /\ n = RecLen(file[i]) /\ file[i].lost = 0 /\ ~file[i].bad
    THEN [raised |-> FALSE, msg |-> Msg(file[i])]
    ELSE [raised |-> TRUE, msg |-> Msg(Record(0, 0, <<>>, TRUE))]

(* an index that keeps the last position of each mgid only *)
idx_assign(offs, mgid, pos) ==
    [m \in DOMAIN offs \cup {mgid} |-> IF m = mgid THEN <<pos>> ELSE offs[m]]

(* self.idx[mgid].append(pos), or self.idx[mgid] = [pos] *)
idx_append(offs, mgid, pos) ==
    [m \in DOMAIN offs \cup {mgid} |->
        IF m = mgid THEN (IF m \in DOMAIN offs THEN Append(offs[m], pos) ELSE <<pos>>)
        ELSE offs[m]]

(* while self.f.read(HeaderSize): self.f.seek(-HeaderSize, io.SEEK_CUR)      *)
(* with the file at pos and bytes left: the position the header is then     *)
(* read from.  A read that met the end of the file has advanced by fewer    *)
(* than HeaderSize bytes, so the seek ends before pos, HeaderSize bytes     *)
(* before the end of the file, and the loop body runs from there; a         *)
(* position before the start of the file makes seek raise OSError.          *)
rewind(file, pos) ==
    IF FileLen(file) - pos < HeaderSize THEN FileLen(file) - HeaderSize ELSE pos

(* the while loop of generate_index *)
RECURSIVE index_from(_, _, _)
index_from(file, pos, offs) ==
    IF FileLen(file) - pos >= HeaderSize
    THEN LET h == peek_header(file, pos) IN
         IF h.raised THEN [raised |-> TRUE, offs |-> offs]
         ELSE index_from(file, pos + HeaderSize + h.size + FooterSize,
                         idx_append(offs, h.mgid, pos))
    ELSE IF FileLen(file) - pos <= 0 THEN [raised |-> FALSE, offs |-> offs]
    ELSE IF rewind(file, pos) < 0 THEN [raised |-> TRUE, offs |-> offs]
    ELSE index_from(file, rewind(file, pos), offs)

(* LSFReader.generate_index *)
generate_index(file) ==
    LET h == peek_header(file, 0) IN
    IF h.raised THEN [raised |-> TRUE, idx |-> EmptyIdx]
    ELSE LET r == index_from(file, 0, NoOffs) IN
         [raised |-> r.raised,
          idx |-> [has_ts |-> TRUE, ts |-> h.timestamp, offs |-> r.offs]]

(* pickle.dump(self.idx, f) *)
Stored(idx) == [exists |-> TRUE, ts |-> idx.ts, offs |-> idx.offs]

(* LSFReader.read_index: the index is loaded, the first header is read;     *)
(* on a different timestamp self.idx = {}; then del self.idx['timestamp']   *)
read_index(sf, file) ==
    LET h == peek_header(file, 0) IN
    IF h.raised
    THEN [err |-> "RuntimeError", idx |-> [has_ts |-> TRUE, ts |-> sf.ts, offs |-> sf.offs]]
    ELSE IF h.timestamp # sf.ts
    THEN [err |-> "KeyError", idx |-> EmptyIdx]
    ELSE [err |-> "", idx |-> [has_ts |-> FALSE, ts |-> 0, offs |-> sf.offs]]

(* LSFReader.__enter__ on a path: the file is opened, an existing side file *)
(* is read, and without an index one is generated and saved if asked for.   *)
(* err names the exception that leaves __enter__, "" if none.               *)
enter(file, sf, use_index, save_index) ==
    LET loaded == IF sf.exists THEN read_index(sf, file)
                  ELSE [err |-> "", idx |-> EmptyIdx]
    IN
    IF loaded.err # "" THEN [err |-> loaded.err, idx |-> loaded.idx, side |-> sf]
    ELSE IF ~Truthy(loaded.idx) /\ use_index
    THEN LET g == generate_index(file) IN
         IF g.raised THEN [err |-> "RuntimeError", idx |-> g.idx, side |-> sf]
         ELSE [err |-> "", idx |-> g.idx,
               side |-> IF save_index THEN Stored(g.idx) ELSE sf]
    ELSE [err |-> "", idx |-> loaded.idx, side |-> sf]


TypeLists == {<<>>, <<1>>, <<2>>, <<2, 1>>}
Types == {NoFilter} \cup {Filter(ids) : ids \in TypeLists}

InList(m, ids) == \E i \in DOMAIN ids : ids[i] = m

(* two ascending lists merged into one *)
RECURSIVE merge2(_, _)
merge2(a, b) ==
    IF a = <<>> THEN b
    ELSE IF b = <<>> THEN a
    ELSE IF Head(a) <= Head(b) THEN <<Head(a)>> \o merge2(Tail(a), b)
    ELSE <<Head(b)>> \o merge2(a, Tail(b))

(* heapq.merge over the lists *)
RECURSIVE heapq_merge(_)
heapq_merge(lists) ==
    IF lists = <<>> THEN <<>> ELSE merge2(Head(lists), heapq_merge(Tail(lists)))

(* [self.idx[key] for key in types if key in self.idx] *)
RECURSIVE picked(_, _, _)
picked(offs, ids, i) ==
    IF i > Len(ids) THEN <<>>
    ELSE (IF ids[i] \in DOMAIN offs THEN <<offs[ids[i]]>> ELSE <<>>)
         \o picked(offs, ids, i + 1)

(* LSFReader.sorted_idx_iter.  With an empty list of types every value of   *)
(* self.idx is taken; the value of the key 'timestamp', a float, makes      *)
(* heapq.merge raise TypeError.                                             *)
sorted_idx_iter(idx, ids) ==
    IF ids # <<>>
    THEN [err |-> "", positions |-> heapq_merge(picked(idx.offs, ids, 1))]
    ELSE IF idx.has_ts THEN [err |-> "TypeError", positions |-> <<>>]
    ELSE [err |-> "", positions |-> heapq_merge(picked(idx.offs, <<1, 2>>, 1))]

(* what one next() of the generator read_message does *)
Yield(msg, at_pos, pos, rest) ==
    [kind |-> "yield", err |-> "", msg |-> msg, decoded |-> {at_pos}, pos |-> pos,
     rest |-> rest, warned |-> FALSE]
StopIteration(pos, rest) ==
    [kind |-> "stop", err |-> "", msg |-> Msg(Record(0, 0, <<>>, TRUE)), decoded |-> {},
     pos |-> pos, rest |-> rest, warned |-> FALSE]
Raise(err, decoded, pos, rest) ==
    [kind |-> "raise", err |-> err, msg |-> Msg(Record(0, 0, <<>>, TRUE)),
     decoded |-> decoded, pos |-> pos, rest |-> rest, warned |-> FALSE]

(* warnings.warn('Invalid synchronization number. Stopping parsing'); break *)
Warn(pos, rest) == [StopIteration(pos, rest) EXCEPT !.warned = TRUE]

(* the branch "Read using index": the next position of the merged lists *)
index_next(file, rest) ==
    IF rest = <<>> THEN StopIteration(0, rest)
    ELSE LET pos == Head(rest)
             h == peek_header(file, pos)
             d == deserialize(file, pos, h.size + HeaderSize + FooterSize)
         IN
         IF h.raised THEN Raise("RuntimeError", {}, 0, rest)
         ELSE IF ~h.sync THEN Warn(0, rest)
         ELSE IF d.raised THEN Raise("RuntimeError", {pos}, 0, rest)
         ELSE Yield(d.msg, pos, 0, Tail(rest))

(* a scan that decodes every record and drops the ones not asked for *)
RECURSIVE scan_decode_all(_, _, _)
scan_decode_all(file, pos, types) ==
    IF FileLen(file) - pos >= HeaderSize
    THEN LET h == peek_header(file, pos)
             n == HeaderSize + h.size + FooterSize
             d == deserialize(file, pos, n)
         IN
         IF h.raised THEN Raise("RuntimeError", {}, pos, <<>>)
         ELSE IF ~h.sync THEN Warn(pos, <<>>)
         ELSE IF d.raised THEN Raise("RuntimeError", {pos}, pos, <<>>)
         ELSE IF ~types.filter \/ InList(h.mgid, types.ids)
         THEN Yield(d.msg, pos, pos + n, <<>>)
         ELSE scan_decode_all(file, pos + n, types)
    ELSE IF FileLen(file) - pos <= 0 THEN StopIteration(pos, <<>>)
    ELSE IF rewind(file, pos) < 0 THEN Raise("OSError", {}, pos, <<>>)
    ELSE scan_decode_all(file, rewind(file, pos), types)

(* a scan that steps over a record whose header has no sync number *)
RECURSIVE scan_next_resync(_, _, _)
scan_next_resync(file, pos, types) ==
    IF FileLen(file) - pos >= HeaderSize
    THEN LET h == peek_header(file, pos)
             n == HeaderSize + h.size + FooterSize
             d == deserialize(file, pos, n)
         IN
         IF h.raised THEN Raise("RuntimeError", {}, pos, <<>>)
         ELSE IF ~h.sync THEN scan_next_resync(file, pos + n, types)
         ELSE IF ~types.filter \/ InList(h.mgid, types.ids)
         THEN (IF d.raised THEN Raise("RuntimeError", {pos}, pos, <<>>)
               ELSE Yield(d.msg, pos, pos + n, <<>>))
         ELSE scan_next_resync(file, pos + n, types)
    ELSE StopIteration(pos, <<>>)

(* the branch "Read file without index", from pos up to the next yield *)
RECURSIVE scan_next(_, _, _)
scan_next(file, pos, types) ==
    IF FileLen(file) - pos >= HeaderSize
    THEN LET h == peek_header(file, pos)
             n == HeaderSize + h.size + FooterSize
             d == deserialize(file, pos, n)
         IN
         IF h.raised THEN Raise("RuntimeError", {}, pos, <<>>)
         ELSE IF ~h.sync THEN Warn(pos, <<>>)
         ELSE IF ~types.filter \/ InList(h.mgid, types.ids)
         THEN (IF d.raised THEN Raise("RuntimeError", {pos}, pos, <<>>)
               ELSE Yield(d.msg, pos, pos + n, <<>>))
         ELSE scan_next(file, pos + n, types)
    ELSE IF FileLen(file) - pos <= 0 THEN StopIteration(pos, <<>>)
    ELSE IF rewind(file, pos) < 0 THEN Raise("OSError", {}, pos, <<>>)
    ELSE scan_next(file, rewind(file, pos), types)

(* LSFReader.count_index: len(self.idx[id]) *)
count_index(idx, mgid) ==
    IF mgid \in DOMAIN idx.offs
    THEN [err |-> "", n |-> Len(idx.offs[mgid])]
    ELSE [err |-> "KeyError", n |-> 0]


(* every message of a file, in file order *)
Msgs(file) == [i \in DOMAIN file |-> Msg(file[i])]

(* list(LSFReader.read_message()) without index and without filter *)
RECURSIVE read_all(_, _)
read_all(file, pos) ==
    LET r == scan_next(file, pos, NoFilter) IN
    IF r.kind = "yield"
    THEN LET more == read_all(file, r.pos) IN
         [err |-> more.err, msgs |-> <<r.msg>> \o more.msgs]
    ELSE [err |-> r.err, msgs |-> <<>>]

(* for msg in LSFReader.read(path, use_index=False, save_index=False) *)
read_lsf(file, sf) ==
    LET e == enter(file, sf, FALSE, FALSE) IN
    IF e.err # "" THEN [err |-> e.err, msgs |-> <<>>] ELSE read_all(file, 0)

(* the branch of merge for <name>.lsf.gz: gzip.decompress raises EOFError   *)
(* on a stream without its end marker, and the handler of EOFError uses     *)
(* the unbound name e; the decompressed bytes are read with an index        *)
read_gz(a) ==
    IF ~a.eof THEN [err |-> "UnboundLocalError", msgs |-> <<>>]
    ELSE LET e == enter(a.recs, NoSide, TRUE, FALSE) IN
         IF e.err # "" THEN [err |-> e.err, msgs |-> <<>>] ELSE read_all(a.recs, 0)

(* list.sort(key=lambda x: x.timestamp): a stable sort *)
RECURSIVE insert_by_timestamp(_, _)
insert_by_timestamp(sorted, m) ==
    IF sorted = <<>> THEN <<m>>
    ELSE IF m.timestamp < Head(sorted).timestamp THEN <<m>> \o sorted
    ELSE <<Head(sorted)>> \o insert_by_timestamp(Tail(sorted), m)

RECURSIVE sort_from_left(_, _)
sort_from_left(msgs, sorted) ==
    IF msgs = <<>> THEN sorted
    ELSE sort_from_left(Tail(msgs), insert_by_timestamp(sorted, Head(msgs)))

(* a merge that writes the messages in the order read *)
keep_order(msgs) == msgs

sort_by_timestamp(msgs) == sort_from_left(msgs, <<>>)

(* merge(lsf_dir, lsf_out): gz_first says in which order os.walk yields the *)
(* two files.  Nothing is written when a read raises.                       *)
merge(file, sf, a, gz_first) ==
    LET plain == read_lsf(file, sf)
        gz == IF a.exists THEN read_gz(a) ELSE [err |-> "", msgs |-> <<>>]
        first == IF gz_first THEN gz ELSE plain
        second == IF gz_first THEN plain ELSE gz
    IN
    IF first.err # "" THEN [called |-> TRUE, written |-> FALSE, err |-> first.err, recs |-> <<>>]
    ELSE IF second.err # ""
    THEN [called |-> TRUE, written |-> FALSE, err |-> second.err, recs |-> <<>>]
    ELSE [called |-> TRUE, written |-> TRUE, err |-> "",
          recs |-> sort_by_timestamp(first.msgs \o second.msgs)]

Gz(recs, eof) == [exists |-> TRUE, recs |-> recs, eof |-> eof]

ArchiveChoices ==
    { NoArchive,
      Gz(<<>>, TRUE),
      Gz(<<Record(2, 2, PayloadOf(2), FALSE), Record(1, 1, PayloadOf(1), FALSE)>>, TRUE),
      Gz(<<Record(1, 2, PayloadOf(1), FALSE)>>, FALSE) }

----------------------------------------------------------------------------
(* The log file, its readers and merge.                                     *)
(*                                                                         *)
(* One session at a time is followed; it reads the file at <log>.lsf        *)
(* through LSFReader as LSFReader.read does: __enter__, read_message(types) *)
(* one next() at a time, __exit__.  The file is written, cut and merged     *)
(* between sessions.                                                        *)

Quiet == rd.phase = "none" /\ ~merged.called

(* a record is appended to the log *)
WriteRecord(r) ==
    /\ Quiet
    /\ Len(disk) + cut < MaxRecords
    /\ disk' = Append(disk, r)
    /\ UNCHANGED <<regVars, schedVars, stack, seen, sendVars, cut, side, rd, archive, merged, auxVars>>

(* the log is cut down to start at its second record *)
Truncate ==
    /\ Quiet
    /\ disk # <<>>
    /\ disk' = Tail(disk)
    /\ cut' = cut + 1
    /\ UNCHANGED <<regVars, schedVars, stack, seen, sendVars, side, rd, archive, merged, auxVars>>

(* with LSFReader(path, use_index, save_index) as r: LSFReader.__enter__.   *)
(* An exception of __enter__ ends the session at once; __exit__ is not      *)
(* called for it.                                                           *)
Open(types, use_index, save_index) ==
    /\ Quiet
    /\ LET e == enter(disk, side, use_index, save_index) IN
       /\ rd' = [NoSession EXCEPT
                   !.phase = IF e.err = "" THEN "open" ELSE "ended",
                   !.f = "open",
                   !.err = e.err,
                   !.where = IF e.err = "" THEN "" ELSE "enter",
                   !.use_index = use_index,
                   !.types = types,
                   !.idx = e.idx,
                   !.found = side]
       /\ side' = e.side
    /\ UNCHANGED <<regVars, schedVars, stack, seen, sendVars, disk, cut, archive, merged, auxVars>>

(* one next() of r.read_message(types); an exception leaves the with block, *)
(* so __exit__ closes the file                                              *)
ReadNext ==
    /\ rd.phase = "open"
    /\ ~rd.exhausted
    /\ LET indexed == Truthy(rd.idx) /\ rd.types.filter
           it == sorted_idx_iter(rd.idx, rd.types.ids)
           rest == IF rd.started THEN rd.rest ELSE it.positions
           r == IF indexed
                THEN (IF it.err # "" THEN Raise(it.err, {}, 0, <<>>)
                      ELSE index_next(disk, rest))
                ELSE scan_next(disk, rd.pos, rd.types)
       IN
       rd' = [rd EXCEPT
                !.mode = IF indexed THEN "index" ELSE "scan",
                !.started = TRUE,
                !.pos = r.pos,
                !.rest = r.rest,
                !.decoded = rd.decoded \cup r.decoded,
                !.out = IF r.kind = "yield" THEN Append(rd.out, r.msg) ELSE rd.out,
                !.exhausted = (r.kind = "stop"),
                !.warned = r.warned,
                !.err = r.err,
                !.where = IF r.kind = "raise" THEN "read" ELSE "",
                !.phase = IF r.kind = "raise" THEN "ended" ELSE "open",
                !.f = IF r.kind = "raise" THEN "closed" ELSE "open"]
    /\ UNCHANGED <<regVars, schedVars, stack, seen, sendVars, disk, cut, side, archive, merged, auxVars>>

(* r.count_index(T) inside the with block, before the messages are read *)
CountIndex(mgid) ==
    /\ rd.phase = "open"
    /\ ~rd.started
    /\ rd.count.mgid = 0
    /\ LET c == count_index(rd.idx, mgid) IN
       rd' = [rd EXCEPT
                !.count = [mgid |-> mgid, n |-> c.n],
                !.err = c.err,
                !.where = IF c.err # "" THEN "count" ELSE "",
                !.phase = IF c.err # "" THEN "ended" ELSE "open",
                !.f = IF c.err # "" THEN "closed" ELSE "open"]
    /\ UNCHANGED <<regVars, schedVars, stack, seen, sendVars, disk, cut, side, archive, merged, auxVars>>

(* the with block is left: LSFReader.__exit__ *)
Close ==
    /\ rd.phase = "open"
    /\ rd' = [rd EXCEPT !.phase = "ended", !.f = "closed"]
    /\ UNCHANGED <<regVars, schedVars, stack, seen, sendVars, disk, cut, side, archive, merged, auxVars>>

(* merge(root, out) over <log>.lsf and the archive a found under the root *)
Merge(a, gz_first) ==
    /\ Quiet
    /\ archive' = a
    /\ merged' = merge(disk, side, a, gz_first)
    /\ UNCHANGED <<regVars, schedVars, stack, seen, sendVars, disk, cut, side, rd, auxVars>>

(* the reader of an ended session, or the outcome of a merge, is dropped *)
Discard ==
    /\ rd.phase = "ended" \/ merged.called
    /\ rd' = NoSession
    /\ archive' = NoArchive
    /\ merged' = NotMerged
    /\ UNCHANGED <<regVars, schedVars, stack, seen, sendVars, disk, cut, side, auxVars>>

InitLog ==
    /\ RegistryIdle
    /\ SchedIdle
    /\ IoIdle

NextLog ==
    \/ \E r \in Written \cup Malformed : WriteRecord(r)
    \/ Truncate
    \/ \E types \in Types, use_index \in BOOLEAN, save_index \in BOOLEAN :
          Open(types, use_index, save_index)
    \/ ReadNext
    \/ \E mgid \in MsgIds : CountIndex(mgid)
    \/ Close
    \/ \E a \in ArchiveChoices, gz_first \in BOOLEAN : Merge(a, gz_first)
    \/ Discard

SpecLog == InitLog /\ [][NextLog]_vars


----------------------------------------------------------------------------
(* Properties of the log reader and of merge.                               *)

AllWritten(file) == \A i \in DOMAIN file : file[i] \in Written

IsPrefix(a, b) == Len(a) <= Len(b) /\ a = SubSeq(b, 1, Len(a))

(* a session opened with the index enabled that reads without type filter,  *)
(* on a log that holds serialized messages only                             *)
RoundTripSession ==
    /\ rd.phase # "none"
    /\ rd.use_index
    /\ ~rd.types.filter
    /\ AllWritten(disk)

ReadBack ==
    /\ IsPrefix(rd.out, Msgs(disk))
    /\ rd.exhausted => rd.out = Msgs(disk)

(* C12: the N records written to a log are read back with the index         *)
(* enabled and no type filter: the session opens and reads without error,   *)
(* the messages come in file order, each equal to the record written, and   *)
(* the read ends after exactly N of them.                                   *)
C12_RoundTrip ==
    RoundTripSession => (rd.where \notin {"enter", "read"} /\ ReadBack)

(* the same for the sessions that __enter__ lets through *)
RoundTripOnceOpen ==
    (RoundTripSession /\ rd.where # "enter") => (rd.where # "read" /\ ReadBack)

(* __enter__ fails on such a log only if the log is empty or the side file  *)
(* holds another sentinel                                                   *)
EnterFailsOnlyEmptyOrStale ==
    (RoundTripSession /\ rd.where = "enter") =>
        \/ disk = <<>>
        \/ rd.found.exists /\ rd.found.ts # disk[1].timestamp

(* the side file met by __enter__ stores a sentinel that is not the         *)
(* timestamp of the log's first record                                      *)
Mismatch ==
    /\ rd.phase # "none"
    /\ rd.found.exists
    /\ disk # <<>>
    /\ rd.found.ts # disk[1].timestamp

(* C13: opening a log whose side file stores another sentinel than the      *)
(* first record's timestamp succeeds, and the index in use afterwards is    *)
(* the one of the current file; a stored index is used as it is only when   *)
(* its sentinel equals the first record's timestamp.                        *)
C13_StaleIndexRebuilt ==
    /\ Mismatch => /\ rd.where # "enter"
                   /\ rd.use_index => rd.idx.offs = generate_index(disk).idx.offs
    /\ (rd.phase # "none" /\ rd.where # "enter" /\ rd.found.exists /\ ~rd.idx.has_ts
        /\ disk # <<>>)
          => rd.found.ts = disk[1].timestamp

(* what the code does on a mismatch: KeyError leaves __enter__ *)
MismatchRaises == Mismatch => (rd.where = "enter" /\ rd.err = "KeyError")

(* the stored index is taken over only with an equal sentinel *)
UsedAsIsOnlyIfSentinelEqual ==
    (rd.phase # "none" /\ rd.where # "enter" /\ rd.found.exists /\ disk # <<>>)
        => (rd.found.ts = disk[1].timestamp /\ rd.idx.offs = rd.found.offs)

(* the messages of the requested types, in file order *)
RECURSIVE Requested(_, _, _)
Requested(file, ids, i) ==
    IF i > Len(file) THEN <<>>
    ELSE (IF InList(file[i].mgid, ids) THEN <<Msg(file[i])>> ELSE <<>>)
         \o Requested(file, ids, i + 1)

(* a read_message(types) that scans the file: no index is held *)
ScanFiltered == rd.started /\ rd.mode = "scan" /\ rd.types.filter

(* C14: a filtered read without index returns exactly the records of the    *)
(* requested types in file order, hands no record of another type to the    *)
(* decoder, and is not affected by a malformed payload in a record that     *)
(* was not requested.                                                       *)
C14_FilteredScan ==
    ScanFiltered =>
        /\ \A pos \in rd.decoded : InList(disk[at(disk, pos)].mgid, rd.types.ids)
        /\ (\A i \in DOMAIN disk : InList(disk[i].mgid, rd.types.ids) => ~disk[i].bad)
              => /\ rd.where # "read"
                 /\ IsPrefix(rd.out, Requested(disk, rd.types.ids, 1))
                 /\ rd.exhausted => rd.out = Requested(disk, rd.types.ids, 1)

(* type 1 was requested, the scan has passed a malformed record of type 2   *)
(* and has returned the record of type 1 behind it                          *)
C14_Witness ==
    /\ ScanFiltered
    /\ rd.types.ids = <<1>>
    /\ rd.exhausted
    /\ \E i, j \in DOMAIN disk : i < j /\ disk[i].bad /\ disk[j].mgid = 1
    /\ rd.out # <<>>

(* the index held describes the file *)
ValidIndex == Truthy(rd.idx) /\ rd.idx.offs = generate_index(disk).idx.offs

(* C15: count_index(T) on a reader with a valid index returns the number    *)
(* of records of type T in the log, for every message type T.               *)
C15_CountIndex ==
    (rd.phase # "none" /\ rd.count.mgid # 0 /\ ValidIndex) =>
        /\ rd.where # "count"
        /\ rd.count.n = Cardinality({i \in DOMAIN disk : disk[i].mgid = rd.count.mgid})

(* the count is right for the types that occur in the log *)
CountOfPresentType ==
    (rd.phase # "none" /\ rd.count.mgid # 0 /\ ValidIndex
     /\ \E i \in DOMAIN disk : disk[i].mgid = rd.count.mgid) =>
        /\ rd.where # "count"
        /\ rd.count.n = Cardinality({i \in DOMAIN disk : disk[i].mgid = rd.count.mgid})

Occurrences(seq, x) == Cardinality({i \in DOMAIN seq : seq[i] = x})

MergeInput == Msgs(disk) \o Msgs(archive.recs)

(* C16: the file merge writes holds every record of every input log once,   *)
(* none dropped and none twice, in non-decreasing order of timestamp.       *)
C16_MergeSorted ==
    merged.written =>
        /\ Len(merged.recs) = Len(MergeInput)
        /\ \A i \in DOMAIN MergeInput :
              Occurrences(merged.recs, MergeInput[i]) = Occurrences(MergeInput, MergeInput[i])
        /\ \A i, j \in DOMAIN merged.recs :
              i < j => merged.recs[i].timestamp <= merged.recs[j].timestamp

(* a merge of the log and a gzip archive that had to reorder the records *)
C16_Witness ==
    /\ merged.written
    /\ archive.exists
    /\ Len(disk) >= 2
    /\ Len(merged.recs) = Len(disk) + 2
    /\ merged.recs # MergeInput
    /\ \E i, j \in DOMAIN disk : i < j /\ disk[i].timestamp > disk[j].timestamp

(* C17: when a session has ended, by leaving the with block, by an          *)
(* exception while the index is read or generated, or by an exception       *)
(* during a read, its file handle is closed.                                *)
C17_ClosedOnEveryExit == rd.phase = "ended" => rd.f = "closed"

(* the handle is closed unless the exception came out of __enter__ *)
ClosedUnlessEnterRaised ==
    (rd.phase = "ended" /\ rd.where # "enter") => rd.f = "closed"

(* an exception out of __enter__ leaves the file open *)
OpenAfterEnterRaised ==
    (rd.phase = "ended" /\ rd.where = "enter") => rd.f = "open"

----------------------------------------------------------------------------
(* Sending to a node: IMCNode.send and IMCBase.send *)

MaxEndpoints == 2   \* a node advertises at most MaxEndpoints imc+udp endpoints

(* IPv4 addresses: ipaddress.ip_address(s) as the 32-bit number of s *)
Ip(a, b, c, d) == a * 16777216 + b * 65536 + c * 256 + d

LoopbackIp == "127.0.0.1"

ip_address(s) ==
    CASE s = "10.0.0.2" -> Ip(10, 0, 0, 2)
      [] s = "10.0.1.3" -> Ip(10, 0, 1, 3)
      [] s = "10.0.0.7" -> Ip(10, 0, 0, 7)
      [] s = "10.0.1.9" -> Ip(10, 0, 1, 9)
      [] s = LoopbackIp -> Ip(127, 0, 0, 1)

(* the prefix length of a dotted netmask *)
prefixlen(netmask) ==
    CASE netmask = "255.255.255.0" -> 24
      [] netmask = "255.0.0.0" -> 8

(* ip.ip_interface(addr + '/' + netmask).network: the host bits are cleared *)
ip_interface_network(addr, netmask) ==
    LET size == 2 ^ (32 - prefixlen(netmask))
        a == ip_address(addr)
    IN [network_address |-> a - (a % size), prefixlen |-> prefixlen(netmask)]

(* svc_ip in network *)
InNetwork(a, network) ==
    LET size == 2 ^ (32 - network.prefixlen)
    IN a - (a % size) = network.network_address

(* netifaces: the interfaces of the machine as (name, addr, netmask) *)
Lo == <<"lo", LoopbackIp, "255.0.0.0">>
Eth0 == <<"eth0", "10.0.0.7", "255.255.255.0">>
Eth1 == <<"eth1", "10.0.1.9", "255.255.255.0">>
InterfaceChoices == {{Lo} \cup s : s \in SUBSET {Eth0, Eth1}}

(* get_interfaces(): 'lo' is left out *)
get_interfaces(interfaces) == {x \in interfaces : x[1] # "lo"}

ServiceIps == {"10.0.0.2", "10.0.1.3", LoopbackIp}
Ports == {6002, 6003}

Endpoint(ip, port) == [scheme |-> "imc+udp", ip |-> ip, port |-> port, param |-> <<>>]
Endpoints == {Endpoint(i, p) : i \in ServiceIps, p \in Ports}

RECURSIVE SeqsUpTo(_, _)
SeqsUpTo(S, n) ==
    IF n = 0 THEN {<<>>}
    ELSE LET shorter == SeqsUpTo(S, n - 1)
         IN shorter \cup {Append(q, x) : q \in {r \in shorter : Len(r) = n - 1}, x \in S}

(* the services of a node: none at all, an http endpoint only, or a list of *)
(* imc+udp endpoints                                                       *)
HttpOnly == [s \in {"http"} |-> <<[scheme |-> "http", ip |-> "10.0.0.2", port |-> 8080, param |-> <<>>]>>]
UdpServices(svcs) == [s \in {"imc+udp"} |-> svcs]
ServiceMaps ==
    {NoServices, HttpOnly} \cup {UdpServices(q) : q \in SeqsUpTo(Endpoints, MaxEndpoints) \ {<<>>}}

SendNodes ==
    {[IMCNode(Peer[1], Peer[2], f) EXCEPT !.services = m] : f \in BOOLEAN, m \in ServiceMaps}

(* a message before it is sent: source and destination 0, its own time *)
Unsent(timestamp) == [src |-> 0, dst |-> 0, timestamp |-> timestamp]

Datagram(ip, port) == [ip |-> ip, port |-> port]

(* every in-subnet endpoint gets the message *)
every_local(svcs, networks) ==
    LET local == {i \in 1..Len(svcs) : \E n \in networks : InNetwork(ip_address(svcs[i].ip), n)}
        RECURSIVE from(_)
        from(i) == IF i > Len(svcs) THEN <<>>
                   ELSE IF i \in local THEN <<Datagram(svcs[i].ip, svcs[i].port)>> \o from(i + 1)
                   ELSE from(i + 1)
    IN [found |-> local # {}, sent |-> from(1)]

(* the loop over imcudp_services: the first service inside a local network  *)
(* gets the message and send returns                                        *)
first_local(svcs, networks) ==
    LET local == {i \in 1..Len(svcs) : \E n \in networks : InNetwork(ip_address(svcs[i].ip), n)}
    IN IF local = {} THEN [found |-> FALSE, sent |-> <<>>]
       ELSE LET i == CHOOSE j \in local : \A k \in local : j <= k
            IN [found |-> TRUE, sent |-> <<Datagram(svcs[i].ip, svcs[i].port)>>]

(* the loopback fallback: one datagram to 127.0.0.1 per advertised port *)
loopback(svcs) == [i \in 1..Len(svcs) |-> Datagram(LoopbackIp, svcs[i].port)]

(* IMCNode.send(msg) *)
node_send(node, msg, interfaces) ==
    LET m == [msg EXCEPT !.dst = node.src] IN
    IF "imc+udp" \notin DOMAIN node.services
    THEN [msg |-> m, sent |-> <<>>, result |-> "returned",
          logged |-> IF node.is_fixed THEN 0 ELSE 1]
    ELSE LET imcudp_services == node.services["imc+udp"]
             networks == {ip_interface_network(x[2], x[3]) : x \in get_interfaces(interfaces)}
             r == first_local(imcudp_services, networks)
         IN [msg |-> m,
             sent |-> IF r.found THEN r.sent ELSE loopback(imcudp_services),
             result |-> "returned", logged |-> 0]

(* a call of IMCNode.send with keyword arguments: send takes msg only, so   *)
(* any keyword raises TypeError before the body runs                        *)
node_send_call(node, msg, interfaces, kwargs) ==
    IF kwargs # {}
    THEN [msg |-> msg, sent |-> <<>>, result |-> "TypeError", logged |-> 0]
    ELSE node_send(node, msg, interfaces)

(* IMCBase.send_static(msg, set_timestamp=True) *)
send_static(msg, set_timestamp, transports, t) ==
    LET m1 == [msg EXCEPT !.src = imc_id]
        m2 == IF set_timestamp THEN [m1 EXCEPT !.timestamp = t] ELSE m1
    IN [msg |-> m2,
        sent |-> [i \in 1..Len(transports) |-> Datagram(transports[i].ip, transports[i].port)],
        result |-> "returned", logged |-> 0]

StaticChoices == {<<>>, <<Endpoint("10.0.0.2", 6002)>>}

(* a send that serves the static destinations before it resolves the node *)
send_static_first(ns, node_id, msg, set_timestamp, interfaces, transports, t) ==
    LET m1 == [msg EXCEPT !.src = imc_id]
        m2 == IF set_timestamp THEN [m1 EXCEPT !.timestamp = t] ELSE m1
        s == send_static(m2, TRUE, transports, t)
        r == resolve_node_id(ns, node_id)
    IN IF r.kind # "node"
       THEN [msg |-> s.msg, sent |-> s.sent, result |-> r.kind, logged |-> 0, node |-> <<>>]
       ELSE LET node == ns[CHOOSE k \in r.keys : TRUE]
                n == node_send_call(node, s.msg, interfaces, {"log_fh"})
            IN [msg |-> n.msg, sent |-> s.sent \o n.sent, result |-> n.result,
                logged |-> n.logged, node |-> node]

(* IMCBase.send(node_id, msg, set_timestamp=True) *)
send(ns, node_id, msg, set_timestamp, interfaces, transports, t) ==
    LET m1 == [msg EXCEPT !.src = imc_id]
        m2 == IF set_timestamp THEN [m1 EXCEPT !.timestamp = t] ELSE m1
        r == resolve_node_id(ns, node_id)
    IN IF r.kind # "node"
       THEN [msg |-> m2, sent |-> <<>>, result |-> r.kind, logged |-> 0, node |-> <<>>]
       ELSE LET node == ns[CHOOSE k \in r.keys : TRUE]
                n == node_send_call(node, m2, interfaces, {"log_fh"})
            IN IF n.result # "returned"
               THEN [msg |-> n.msg, sent |-> n.sent, result |-> n.result,
                     logged |-> n.logged, node |-> node]
               ELSE LET s == send_static(n.msg, TRUE, transports, t)
                    IN [msg |-> s.msg, sent |-> n.sent \o s.sent, result |-> s.result,
                        logged |-> n.logged, node |-> node]

SendIds == {IdInt(Peer[1]), IdStr(Peer[2]), IdTuple(Peer[1], Peer[2]), IdInt(2)}

(* IMCBase.add_node(node), while no send is looked at *)
Provision(node) ==
    /\ sender.call = "none"
    /\ nodes' = add_node(nodes, node)
    /\ UNCHANGED <<now, announce, announced, pure, malformed, last, schedVars,
                   stack, seen, logVars, sendVars, auxVars>>

(* node.send(msg) on a node of the map *)
NodeSend(key, interfaces, timestamp) ==
    /\ sender.call = "none"
    /\ key \in DOMAIN nodes
    /\ LET r == node_send(nodes[key], Unsent(timestamp), interfaces) IN
       sender' = [call |-> "node.send", node |-> nodes[key], interfaces |-> interfaces,
                  set_timestamp |-> FALSE, t |-> now, before |-> Unsent(timestamp),
                  msg |-> r.msg, sent |-> r.sent, result |-> r.result, logged |-> r.logged]
    /\ UNCHANGED <<regVars, schedVars, stack, seen, logVars, static_transports, requested, auxVars>>

(* self.send(node_id, msg, set_timestamp) *)
BaseSend(node_id, timestamp, set_timestamp, interfaces, transports) ==
    /\ sender.call = "none"
    /\ LET r == send(nodes, node_id, Unsent(timestamp), set_timestamp, interfaces,
                     transports, now) IN
       sender' = [call |-> "send", node |-> r.node, interfaces |-> interfaces,
                  set_timestamp |-> set_timestamp, t |-> now, before |-> Unsent(timestamp),
                  msg |-> r.msg, sent |-> r.sent, result |-> r.result, logged |-> r.logged,
                  id |-> node_id, transports |-> transports]
    /\ UNCHANGED <<regVars, schedVars, stack, seen, logVars, static_transports, requested, auxVars>>

(* self.send_static(msg, set_timestamp) *)
SendStatic(timestamp, set_timestamp, transports) ==
    /\ sender.call = "none"
    /\ LET r == send_static(Unsent(timestamp), set_timestamp, transports, now) IN
       sender' = [call |-> "send_static", node |-> <<>>, interfaces |-> {},
                  set_timestamp |-> set_timestamp, t |-> now, before |-> Unsent(timestamp),
                  msg |-> r.msg, sent |-> r.sent, result |-> r.result, logged |-> r.logged]
    /\ UNCHANGED <<regVars, schedVars, stack, seen, logVars, static_transports, requested, auxVars>>

(* the caller is done with the message *)
Sent ==
    /\ sender.call # "none"
    /\ sender' = NoSender
    /\ UNCHANGED <<regVars, schedVars, stack, seen, logVars, static_transports, requested, auxVars>>

InitSend == RegistryIdle /\ SchedIdle /\ IoIdle

NextSend ==
    \/ \E node \in SendNodes : Provision(node)
    \/ \E key \in Keys, interfaces \in InterfaceChoices, timestamp \in Stamps :
          NodeSend(key, interfaces, timestamp)
    \/ \E node_id \in SendIds, timestamp \in Stamps, set_timestamp \in BOOLEAN,
          interfaces \in InterfaceChoices, transports \in StaticChoices :
          BaseSend(node_id, timestamp, set_timestamp, interfaces, transports)
    \/ \E timestamp \in Stamps, set_timestamp \in BOOLEAN, transports \in StaticChoices :
          SendStatic(timestamp, set_timestamp, transports)
    \/ Sent
    \/ Tick

SpecSend == InitSend /\ [][NextSend]_vars

----------------------------------------------------------------------------
(* Properties of sending *)

UdpOf(node) == IF "imc+udp" \in DOMAIN node.services THEN node.services["imc+udp"] ELSE <<>>

(* the address lies inside the subnet of an interface other than lo *)
InLocalSubnet(ipstr, interfaces) ==
    \E x \in interfaces :
        /\ x[1] # "lo"
        /\ InNetwork(ip_address(ipstr), ip_interface_network(x[2], x[3]))

NodeSendToUdp == sender.call = "node.send" /\ UdpOf(sender.node) # <<>>

(* C18: IMCNode.send transmits the message exactly once, to the first       *)
(* advertised imc+udp endpoint whose IP lies inside a local interface       *)
(* subnet, and to nothing else; if no advertised imc+udp endpoint lies      *)
(* inside a local subnet, it transmits to 127.0.0.1 on each advertised      *)
(* imc+udp port instead.                                                    *)
C18_SendRouting ==
    NodeSendToUdp =>
        LET svcs == UdpOf(sender.node)
            local == {i \in 1..Len(svcs) : InLocalSubnet(svcs[i].ip, sender.interfaces)}
        IN IF local # {}
           THEN /\ Len(sender.sent) = 1
                /\ \E i \in local :
                      /\ \A j \in local : i <= j
                      /\ sender.sent[1] = Datagram(svcs[i].ip, svcs[i].port)
           ELSE /\ Len(sender.sent) = Len(svcs)
                /\ \A i \in 1..Len(svcs) :
                      sender.sent[i] = Datagram(LoopbackIp, svcs[i].port)

(* a send that passed an endpoint outside every subnet and took the second, *)
(* in-subnet endpoint                                                       *)
C18_Witness ==
    /\ NodeSendToUdp
    /\ Len(UdpOf(sender.node)) = 2
    /\ ~InLocalSubnet(UdpOf(sender.node)[1].ip, sender.interfaces)
    /\ InLocalSubnet(UdpOf(sender.node)[2].ip, sender.interfaces)
    /\ sender.sent = <<Datagram(UdpOf(sender.node)[2].ip, UdpOf(sender.node)[2].port)>>

(* a send that found no endpoint in a subnet and went to loopback on two ports *)
LoopbackFallback ==
    /\ NodeSendToUdp
    /\ Len(sender.sent) = 2
    /\ sender.sent[1].ip = LoopbackIp
    /\ sender.sent[1].port # sender.sent[2].port

(* the send was made to a node of the map that has no imc+udp service *)
ToNodeWithoutUdp ==
    /\ sender.call \in {"node.send", "send"}
    /\ sender.node # <<>>
    /\ "imc+udp" \notin DOMAIN sender.node.services

(* C19: send to a resolved node that advertises no imc+udp endpoint fails   *)
(* with a NoRoute error returned to the caller, and transmits nothing to    *)
(* that node.                                                               *)
C19_NoRoute ==
    ToNodeWithoutUdp => (sender.result = "NoRoute" /\ sender.sent = <<>>)

(* nothing is transmitted to a node without imc+udp service *)
NoUdpTransmitsNothing ==
    ToNodeWithoutUdp => sender.sent = <<>>

(* IMCNode.send returns normally for such a node; the error is logged       *)
(* unless the node is fixed                                                 *)
NoUdpNodeSendReturns ==
    (ToNodeWithoutUdp /\ sender.call = "node.send") =>
        /\ sender.result = "returned"
        /\ sender.logged = (IF sender.node.is_fixed THEN 0 ELSE 1)

(* IMCBase.send ends with TypeError for every node it resolves *)
SendRaisesTypeError ==
    (sender.call = "send" /\ sender.node # <<>>) =>
        (sender.result = "TypeError" /\ sender.sent = <<>>)

SendResolved == sender.call = "send" /\ sender.node # <<>>

(* C20: send(node_id, msg, set_timestamp) sets msg.src to the local actor's *)
(* address and msg.dst to the resolved node's address; it sets the message  *)
(* timestamp to the current time when set_timestamp is true and leaves the  *)
(* message timestamp unchanged when set_timestamp is false.                 *)
C20_SendStamps ==
    SendResolved =>
        /\ sender.msg.src = imc_id
        /\ sender.msg.dst = sender.node.src
        /\ sender.msg.timestamp =
              (IF sender.set_timestamp THEN sender.t ELSE sender.before.timestamp)

(* src and timestamp are as claimed *)
SendStampsSrcAndTime ==
    SendResolved =>
        /\ sender.msg.src = imc_id
        /\ sender.msg.timestamp =
              (IF sender.set_timestamp THEN sender.t ELSE sender.before.timestamp)

(* dst is never set by IMCBase.send *)
SendLeavesDst ==
    SendResolved => sender.msg.dst = sender.before.dst

(* IMCNode.send sets dst and touches nothing else of the message *)
NodeSendSetsDst ==
    sender.call = "node.send" =>
        sender.msg = [sender.before EXCEPT !.dst = sender.node.src]

----------------------------------------------------------------------------
(* Static transports: add_static_transport and send_static *)

StaticServices == {Endpoint("10.0.0.2", 6002), Endpoint("10.0.1.3", 6003)}
StaticTypes == MsgTypes \cup {Message}
MsgTypeLists == {<<"T1">>, <<"T2">>, <<Message>>, <<"T1", Message>>}

(* IMCBase.add_static_transport: for each type in turn                      *)
(* self._static_transports[msg_type].append(imc_service); the subscript of  *)
(* a plain dict raises KeyError for a type that has no list yet             *)
RECURSIVE add_static_from(_, _, _, _)
add_static_from(st, imc_service, msg_types, i) ==
    IF i > Len(msg_types) THEN [raised |-> FALSE, transports |-> st]
    ELSE IF msg_types[i] \notin DOMAIN st THEN [raised |-> TRUE, transports |-> st]
    ELSE add_static_from([st EXCEPT ![msg_types[i]] = Append(@, imc_service)],
                         imc_service, msg_types, i + 1)

add_static_transport(st, imc_service, msg_types) ==
    add_static_from(st, imc_service, msg_types, 1)

(* self._static_transports.get(key, []) *)
get(st, key) == IF key \in DOMAIN st THEN st[key] ELSE <<>>

(* the two loops of send_static: the services of type(msg), then those of   *)
(* pyimc.Message                                                            *)
static_services(st, type) == get(st, type) \o get(st, Message)

(* self.add_static_transport(imc_service, msg_types) *)
AddStaticTransport(imc_service, msg_types) ==
    /\ sender.call = "none"
    /\ static_transports' = add_static_transport(static_transports, imc_service, msg_types).transports
    /\ requested' = requested \cup {<<imc_service, msg_types[i]>> : i \in DOMAIN msg_types}
    /\ UNCHANGED <<regVars, schedVars, stack, seen, logVars, sender, auxVars>>

(* self.send_static(msg, set_timestamp) for a message of the given type *)
SendStaticOfType(type, timestamp, set_timestamp) ==
    /\ sender.call = "none"
    /\ LET r == send_static(Unsent(timestamp), set_timestamp,
                            static_services(static_transports, type), now) IN
       sender' = [call |-> "send_static", node |-> <<>>, interfaces |-> {},
                  set_timestamp |-> set_timestamp, t |-> now, before |-> Unsent(timestamp),
                  msg |-> r.msg, sent |-> r.sent, result |-> r.result, logged |-> r.logged,
                  type |-> type]
    /\ UNCHANGED <<regVars, schedVars, stack, seen, logVars, static_transports, requested, auxVars>>

InitStatic == RegistryIdle /\ SchedIdle /\ IoIdle

NextStatic ==
    \/ \E imc_service \in StaticServices, msg_types \in MsgTypeLists :
          AddStaticTransport(imc_service, msg_types)
    \/ \E type \in StaticTypes, timestamp \in Stamps, set_timestamp \in BOOLEAN :
          SendStaticOfType(type, timestamp, set_timestamp)
    \/ Sent
    \/ Tick

SpecStatic == InitStatic /\ [][NextStatic]_vars

----------------------------------------------------------------------------
(* Properties of the static transports *)

SentStatic == sender.call = "send_static" /\ "type" \in DOMAIN sender

Receivers == {[ip |-> sender.sent[i].ip, port |-> sender.sent[i].port] : i \in DOMAIN sender.sent}

(* C21: after add_static_transport(service, [T]) has been called,           *)
(* send_static(m) transmits m to that service for every message m of type   *)
(* T; a service registered for the wildcard type pyimc.Message receives     *)
(* every message; a service registered only for other types receives        *)
(* nothing.                                                                 *)
C21_StaticDelivery ==
    SentStatic =>
        \A svc \in StaticServices :
            (Datagram(svc.ip, svc.port) \in Receivers)
                <=> (<<svc, sender.type>> \in requested \/ <<svc, Message>> \in requested)

(* add_static_transport never registers anything: no type ever has a list *)
NothingRegistered == static_transports = NoTransports

(* send_static transmits to nothing, whatever was asked for *)
StaticSendsNothing == SentStatic => sender.sent = <<>>

(* a service of another type or of no type receives nothing *)
OthersReceiveNothing ==
    SentStatic =>
        \A svc \in StaticServices :
            (<<svc, sender.type>> \notin requested /\ <<svc, Message>> \notin requested)
                => Datagram(svc.ip, svc.port) \notin Receivers

----------------------------------------------------------------------------
(* Properties of the registry's handlers and of their notifications *)

(* the key shares its address or its name with another key of the map *)
Collides(key, ns) == \E k \in DOMAIN ns : k # key /\ (k[1] = key[1] \/ k[2] = key[2])

(* this step is an Announce with a new key that collides with a node *)
CollidingAnnounce ==
    /\ last'.op = "announce"
    /\ last'.key \notin DOMAIN nodes
    /\ Collides(last'.key, nodes)

(* the map grows by the key and every node it held is unchanged *)
AddedBeside(key) ==
    /\ DOMAIN nodes' = DOMAIN nodes \cup {key}
    /\ Cardinality(DOMAIN nodes') = Cardinality(DOMAIN nodes) + 1
    /\ \A k \in DOMAIN nodes : nodes'[k] = nodes[k]

CollidingAnnounceInserts == CollidingAnnounce => AddedBeside(last'.key)

CollidingPeerAnnounceInserts ==
    (CollidingAnnounce /\ ~last'.own /\ ~last'.raised) => AddedBeside(last'.key)

FirstHeartbeatCalled(k) ==
    /\ last'.op = "heartbeat"
    /\ last'.on_first_heartbeat
    /\ last'.result.keys = {k}

(* this step took the node's last heartbeat time from absent to a value *)
BecomesHeard(k) ==
    /\ k \in DOMAIN nodes /\ k \in DOMAIN nodes'
    /\ ~nodes[k].t_last_heartbeat.some
    /\ nodes'[k].t_last_heartbeat.some

(* the node's last heartbeat time, once set, stays set while the node is in *)
(* the map; only add_node, which stores a new node under the key, resets it *)
StaysHeard(k) ==
    (/\ k \in DOMAIN nodes /\ k \in DOMAIN nodes'
     /\ nodes[k].t_last_heartbeat.some
     /\ ~nodes'[k].t_last_heartbeat.some)
        => (last'.op = "none" /\ nodes'[k] = IMCNode(k[1], k[2], TRUE))

FirstHeartbeatStep ==
    \A k \in Keys : (FirstHeartbeatCalled(k) <=> BecomesHeard(k)) /\ StaysHeard(k)

(* C23: on_first_heartbeat is called with a node's key exactly once during  *)
(* that node's stay in the node map, namely on the Heartbeat that changes   *)
(* its last heartbeat time from absent to a value, and never on any later   *)
(* Heartbeat from that node.                                                *)
C23_FirstHeartbeatOnce == [][FirstHeartbeatStep]_vars

(* a later Heartbeat of a node that has been heard before: no notification *)
C23_Witness ==
    /\ last.op = "heartbeat"
    /\ last.result.kind = "node"
    /\ ~last.on_first_heartbeat
    /\ \A k \in last.result.keys : nodes[k].t_last_heartbeat = Some(TickLen)

(* the keys the last sweep removed *)
Swept == DOMAIN last.before \ DOMAIN nodes

(* C24: for each node removed by a pruning sweep, on_disconnect is called   *)
(* exactly once with that node's key, after the node has left the node map; *)
(* it is never called for a node that the sweep keeps.                      *)
C24_DisconnectOnce ==
    last.op = "prune" =>
        /\ Len(last.present) = Len(last.disconnects)
        /\ \A k \in Swept :
              Cardinality({i \in DOMAIN last.disconnects : last.disconnects[i] = k}) = 1
        /\ \A i \in DOMAIN last.disconnects :
              /\ last.disconnects[i] \in Swept
              /\ ~last.present[i]

(* a sweep that removed one node, notified once, and kept another node *)
C24_Witness ==
    /\ last.op = "prune"
    /\ Cardinality(Swept) = 1
    /\ Len(last.disconnects) = 1
    /\ DOMAIN nodes # {}

(* this step called on_connect(k) *)
ConnectCalled(k) == last'.op = "announce" /\ last'.key = k /\ last'.on_connect

(* this step added the key to the map *)
Added(k) == k \notin DOMAIN nodes /\ k \in DOMAIN nodes'

ConnectOnEveryAdd ==
    \A k \in Keys :
        /\ Added(k) => ConnectCalled(k)
        /\ ConnectCalled(k) => Added(k)

(* C25: on_connect(key) is called once each time a new node is added to the *)
(* node map, whether it is added by a first Announce or by add_node, and is *)
(* never called for an Announce that refreshes a node already in the map.   *)
C25_ConnectOnAdd == [][ConnectOnEveryAdd]_vars

(* on_connect is called exactly in the steps in which an Announce adds its  *)
(* key, never on a refresh                                                  *)
ConnectOnlyOnAnnouncedAdd ==
    \A k \in Keys :
        ConnectCalled(k) <=> (Added(k) /\ last'.op = "announce")

ConnectOnAnnounce == [][ConnectOnlyOnAnnouncedAdd]_vars

(* a key added by add_node is added without any notification *)
AddNodeIsSilent ==
    \A k \in Keys : (Added(k) /\ last'.op # "announce") => last' = Idle

AddNodeSilent == [][AddNodeIsSilent]_vars

(* this step processed an Announce whose source is the actor's own address *)
OwnAddressAnnounce == last'.op = "announce" /\ last'.key[1] = imc_id

OwnAddressAnnounceIgnored == OwnAddressAnnounce => (nodes' = nodes /\ ~last'.on_connect)

(* C26: processing an Announce whose source address equals the local        *)
(* actor's own address never changes the node map: no node is inserted or   *)
(* updated and on_connect is not called, whether the announced name equals  *)
(* the local name or differs from it.                                       *)
C26_OwnAnnounceIgnored == [][OwnAddressAnnounceIgnored]_vars

(* the same for an actor that has set self.announce: the Announce is        *)
(* compared with self.announce.src                                          *)
AnnouncedOwnIgnored ==
    (last'.op = "announce" /\ announce.some /\ last'.key[1] = announce.src)
        => (nodes' = nodes /\ ~last'.on_connect)

OwnAnnounceIgnoredIfAnnouncing == [][AnnouncedOwnIgnored]_vars

(* an actor whose self.announce is None treats it like any peer's Announce *)
OwnInsertedWithoutAnnounce ==
    /\ ~announce.some
    /\ last.op = "announce" /\ last.key[1] = imc_id /\ last.on_connect
    /\ last.key \in DOMAIN nodes

(* this step processed a Heartbeat whose source address is the address of  *)
(* no key of the map, or of more than one                                   *)
UnresolvedHeartbeat ==
    /\ last'.op = "heartbeat"
    /\ Cardinality({k \in DOMAIN nodes : k[1] = last'.src}) # 1

HeartbeatDropped ==
    UnresolvedHeartbeat =>
        /\ nodes' = nodes
        /\ ~last'.on_first_heartbeat
        /\ ~last'.raised

(* C27: a Heartbeat whose source address matches no node in the map, or     *)
(* matches more than one node, is dropped: no node's last heartbeat time    *)
(* changes, no node is created, on_first_heartbeat is not called, and no    *)
(* exception escapes the handler.                                           *)
C27_UnresolvedHeartbeatDropped == [][HeartbeatDropped]_vars

(* a Heartbeat from an address that two nodes share, dropped: both nodes    *)
(* are still unheard                                                        *)
C27_Witness ==
    /\ last.op = "heartbeat"
    /\ Cardinality({k \in DOMAIN nodes : k[1] = last.src}) = 2
    /\ \A k \in DOMAIN nodes : ~nodes[k].t_last_heartbeat.some

(* a Heartbeat from an address no node has *)
UnknownHeartbeatDropped ==
    /\ last.op = "heartbeat"
    /\ DOMAIN nodes # {}
    /\ \A k \in DOMAIN nodes : k[1] # last.src

----------------------------------------------------------------------------
(* Entities of a node: EntityList and EntityInfo *)

MaxEntries == 2     \* an EntityList carries at most MaxEntries ';'-separated entries

Labels == {"x", "y"}
EntityIds == {1, 2}

(* msg.list, a ';'-separated string of 'label=id' entries, as the sequence  *)
(* of its entries; Bare is an entry without '=', as split(';') yields it    *)
(* for an empty string or after a trailing ';'                              *)
Entry(label, id) == [label |-> label, id |-> id]
Bare == [label |-> "", id |-> 0]
Entries == {Entry(l, i) : l \in Labels, i \in EntityIds} \cup {Bare}
EntityLists == SeqsUpTo(Entries, MaxEntries) \ {<<>>}

(* {k: int(v) for k, v in (x.split('=') for x in ...)}: a later entry of a  *)
(* label replaces an earlier one                                            *)
RECURSIVE dict_of(_, _)
dict_of(list, n) ==
    IF n = 0 THEN NoEntities
    ELSE LET d == dict_of(list, n - 1)
             e == list[n]
         IN [l \in DOMAIN d \cup {e.label} |-> IF l = e.label THEN e.id ELSE d[l]]

(* IMCNode.update_entity_list: self.entities is assigned the dict built     *)
(* from msg.list; an entry without '=' raises ValueError in the             *)
(* comprehension, before the assignment                                     *)
update_entity_list(node, list) ==
    IF \E i \in DOMAIN list : list[i] = Bare
    THEN [raised |-> TRUE, node |-> node]
    ELSE [raised |-> FALSE, node |-> [node EXCEPT !.entities = dict_of(list, Len(list))]]

(* IMCNode.update_entity_id: self.entities[ent_label] = ent_id *)
update_entity_id(node, ent_id, ent_label) ==
    [node EXCEPT !.entities =
        [l \in DOMAIN @ \cup {ent_label} |-> IF l = ent_label THEN ent_id ELSE @[l]]]

(* IMCBase._recv_entity_list *)
RecvEntityList(src, op, list) ==
    LET r == resolve_node_id(nodes, IdMsg(src))
        key == CHOOSE k \in r.keys : TRUE
        u == update_entity_list(nodes[key], list)
        report == op = "REPORT" /\ r.kind = "node"
    IN
    /\ nodes' = IF report THEN [nodes EXCEPT ![key] = u.node] ELSE nodes
    /\ last' = [op |-> "entity_list", src |-> src, code |-> op, list |-> list,
                result |-> r, before |-> nodes,
                raised |-> (report /\ u.raised)]
    /\ Impure
    /\ UNCHANGED <<now, announce, schedVars, ioVars>>

(* IMCBase._recv_entity_info *)
RecvEntityInfo(src, src_ent, label) ==
    LET r == resolve_node_id(nodes, IdMsg(src))
        key == CHOOSE k \in r.keys : TRUE
    IN
    /\ nodes' = IF r.kind = "node"
                THEN [nodes EXCEPT ![key] = update_entity_id(nodes[key], src_ent, label)]
                ELSE nodes
    /\ last' = [op |-> "entity_info", src |-> src, label |-> label, id |-> src_ent,
                result |-> r, before |-> nodes, raised |-> FALSE]
    /\ Impure
    /\ UNCHANGED <<now, announce, schedVars, ioVars>>

EntityPeers == {1, 2}

InitEntities == RegistryIdle /\ SchedIdle /\ IoIdle

NextEntities ==
    \/ \E src \in EntityPeers : RecvAnnounce(src, LocalName, SvcGood)
    \/ \E src \in EntityPeers, op \in {"REPORT", "QUERY"}, list \in EntityLists :
          RecvEntityList(src, op, list)
    \/ \E src \in EntityPeers, src_ent \in EntityIds, label \in Labels :
          RecvEntityInfo(src, src_ent, label)

SpecEntities == InitEntities /\ [][NextEntities]_vars

----------------------------------------------------------------------------
(* Properties of the entities map *)

(* the last message was resolved to the node of the key *)
EntityNode == CHOOSE k \in last.result.keys : TRUE

Reported == last.op = "entity_list" /\ last.code = "REPORT" /\ last.result.kind = "node"

WellFormed(list) == \A i \in DOMAIN list : list[i] # Bare

(* every label the node had before the message is still there *)
KeepsLabels(k) == \A l \in DOMAIN last.before[k].entities : l \in DOMAIN nodes[k].entities

(* every pair of the report is in the map, a later pair of a label winning *)
HasReported(k) ==
    \A i \in DOMAIN last.list :
        (\A j \in DOMAIN last.list : j > i => last.list[j].label # last.list[i].label)
            => /\ last.list[i].label \in DOMAIN nodes[k].entities
               /\ nodes[k].entities[last.list[i].label] = last.list[i].id

InfoTouchesOwnLabel ==
    (last.op = "entity_info" /\ last.result.kind = "node") =>
        /\ last.label \in DOMAIN nodes[EntityNode].entities
        /\ nodes[EntityNode].entities[last.label] = last.id
        /\ DOMAIN nodes[EntityNode].entities =
              DOMAIN last.before[EntityNode].entities \cup {last.label}
        /\ \A l \in DOMAIN last.before[EntityNode].entities \ {last.label} :
              nodes[EntityNode].entities[l] = last.before[EntityNode].entities[l]

QueryChangesNothing ==
    (last.op = "entity_list" /\ last.code = "QUERY") => nodes = last.before

(* C28: an EntityList REPORT is merged into the node's entities map: after  *)
(* it is processed every label->id pair of the report is present, and       *)
(* labels recorded earlier that the report does not mention are still       *)
(* present; an EntityInfo adds or overwrites only its own label; an         *)
(* EntityList QUERY leaves the entities map unchanged.                      *)
C28_EntitiesMerged ==
    /\ (Reported /\ WellFormed(last.list)) => (HasReported(EntityNode) /\ KeepsLabels(EntityNode))
    /\ InfoTouchesOwnLabel
    /\ QueryChangesNothing

(* a well-formed report replaces the map: exactly its pairs are left *)
ReportReplaces ==
    (Reported /\ WellFormed(last.list)) =>
        /\ HasReported(EntityNode)
        /\ DOMAIN nodes[EntityNode].entities =
              {last.list[i].label : i \in DOMAIN last.list}

(* a report with an entry that is no 'label=id' pair raises out of the      *)
(* handler and leaves the map as it was                                     *)
MalformedReportRaises ==
    (Reported /\ ~WellFormed(last.list)) => (last.raised /\ nodes = last.before)

----------------------------------------------------------------------------
(* Announces of one peer after another: the services of a node *)

AnnouncedStrings == {SvcGood, SvcTwo, SvcBad}

InitAnnounce == RegistryIdle /\ SchedIdle /\ IoIdle

NextAnnounce ==
    \/ \E src \in EntityPeers, services \in AnnouncedStrings :
          RecvAnnounce(src, LocalName, services)
    \/ Tick

SpecAnnounce == InitAnnounce /\ [][NextAnnounce]_vars

(* the last step was an Announce of a peer whose node is in the map *)
Announced == last.op = "announce" /\ ~last.own /\ last.key \in DOMAIN nodes

ServicesOfLast ==
    /\ nodes[last.key].services = update_services(last.services).services
    /\ nodes[last.key].services_string = last.services

(* C29: after any sequence of Announces from a node, the node's parsed      *)
(* services equal the parse of the service string carried by the most       *)
(* recent Announce and its cached raw string equals that string; an         *)
(* Announce whose service string equals the previous one leaves the parsed  *)
(* services untouched, while every Announce updates the last announce time. *)
(* Stated for a most recent Announce whose string parses.                   *)
C29_ServicesCurrent ==
    (Announced /\ ~update_services(last.services).raised) =>
        /\ ServicesOfLast
        /\ nodes[last.key].t_last_announce = Some(now)

(* the same holds as long as every Announce so far carried a string that    *)
(* parses                                                                   *)
ServicesCurrentIfAllParsed ==
    (Announced /\ pure /\ ~malformed) =>
        /\ ServicesOfLast
        /\ nodes[last.key].t_last_announce = Some(now)

(* every Announce of a node in the map sets the last announce time, also    *)
(* one whose string does not parse                                          *)
AnnounceStampsTime ==
    Announced => nodes[last.key].t_last_announce = Some(now)

(* an Announce with the cached string leaves the parsed services untouched *)
SameStringKeepsServices ==
    (/\ last'.op = "announce" /\ ~last'.own
     /\ last'.key \in DOMAIN nodes
     /\ nodes[last'.key].services_string = last'.services)
        => nodes'[last'.key].services = nodes[last'.key].services

SameStringNotParsed == [][SameStringKeepsServices]_vars

(* after a string that did not parse, the services are the part parsed up   *)
(* to the faulty entry and the cached string is the one before              *)
StaleAfterFailedParse ==
    /\ Announced /\ last.raised
    /\ nodes[last.key].services_string = SvcTwo
    /\ nodes[last.key].services = update_services(SvcGood).services

----------------------------------------------------------------------------
(* A message of a type without bindings *)

Unknown == Dispatched /\ event.type = Message

TimesCalled(name) == Cardinality({k \in DOMAIN event.calls : event.calls[k] = name})

(* C30: a message whose type is unknown to the codec (decoded as plain      *)
(* pyimc.Message) is delivered to wildcard handlers only, once each, never  *)
(* to any type-specific handler, and a warning diagnostic is emitted for it *)
C30_UnknownToWildcardOnly ==
    Unknown =>
        /\ \A k \in DOMAIN event.calls : MethodOf(event.calls[k]).sub = Message
        /\ \A i \in DOMAIN subs[Message] : TimesCalled(subs[Message][i].name) = 1
        /\ Len(event.calls) = Len(subs[Message])
        /\ event.warned

C30_Witness ==
    /\ Unknown
    /\ event.warned
    /\ {event.calls[k] : k \in DOMAIN event.calls} = {"_log_any", "z_leaf_any"}
    /\ "T1" \in DOMAIN subs

(* the warning is logged for no message of a type with bindings *)
KnownNotWarned == Dispatched /\ event.type \in MsgTypes => ~event.warned

----------------------------------------------------------------------------
(* Exceptions of handlers and of periodic bodies: the on_exception hook *)

TimesReported(name) ==
    Cardinality({k \in DOMAIN event.faults : event.faults[k] = name})

(* every handler that raised in a dispatch was passed to on_exception once, *)
(* and no handler that did not raise was                                    *)
HandlerFaultsReported ==
    Dispatched =>
        \A n \in MethodNames :
            TimesReported(n) = IF n \in event.raising THEN 1 ELSE 0

PeriodicRaised == BodyStarted /\ event.t \in PeriodicTasks /\ event.out = "raise"

(* C31: every exception escaping a @Subscribe handler or a @Periodic task   *)
(* body is passed exactly once to the actor's on_exception hook, together   *)
(* with the qualified name of the function that raised and the exception    *)
C31_FaultsToHook ==
    /\ HandlerFaultsReported
    /\ PeriodicRaised => Len(event.faults) = 1

(* the exception of a periodic body reaches no hook, and the task has ended *)
PeriodicFaultUnreported ==
    PeriodicRaised => event.faults = <<>> /\ task[event.t].st = "failed"

HandlerFaultReached == Dispatched /\ event.raising # {} /\ Len(event.calls) > 1

----------------------------------------------------------------------------
(* One @Periodic task on the clock of the loop.                             *)
(*                                                                          *)
(* timer.time is Periodic.time, timer.clock is loop.time(), timer.wake the  *)
(* time at which the task is due again, at the time of its registration;    *)
(* start and prev are the starts of the last two invocations, d and dprev   *)
(* the time their bodies took, n the number of invocations.                 *)

MaxCycles == 3
MaxDuration == 4
Intervals == {2, 3}
Registrations == {0, 1}

(* the argument of asyncio.sleep in periodic_fn *)
sleep_time(time, d) == time

(* Periodic.add_event: ensure_future(periodic_fn()); the first step of the  *)
(* task is queued with call_soon                                            *)
AddEvent ==
    /\ ~timer.registered
    /\ timer' = [timer EXCEPT !.registered = TRUE, !.at = timer.clock, !.wake = timer.clock]
    /\ UNCHANGED <<regVars, schedVars, stack, seen, logVars, sendVars>>

(* one turn of periodic_fn: fn(), which takes d, then the call of sleep *)
Invoke(d) ==
    /\ timer.registered
    /\ timer.clock = timer.wake
    /\ timer.n < MaxCycles
    /\ timer' = [timer EXCEPT !.n = timer.n + 1,
                              !.prev = timer.start,
                              !.dprev = timer.d,
                              !.d = d,
                              !.start = timer.clock,
                              !.clock = timer.clock + d,
                              !.wake = timer.clock + d + sleep_time(timer.time, d)]
    /\ UNCHANGED <<regVars, schedVars, stack, seen, logVars, sendVars>>

(* the loop waits in select() until the sleep's timer is due *)
Sleep ==
    /\ timer.registered
    /\ timer.clock < timer.wake
    /\ timer' = [timer EXCEPT !.clock = timer.wake]
    /\ UNCHANGED <<regVars, schedVars, stack, seen, logVars, sendVars>>

InitPeriodic ==
    /\ RegistryIdle /\ SchedIdle /\ SerialIdle /\ LogIdle /\ SendIdle
    /\ \E time \in Intervals, clock \in Registrations :
          timer = [NoTimer EXCEPT !.time = time, !.clock = clock]

NextPeriodic ==
    \/ AddEvent
    \/ \E d \in 0..MaxDuration : Invoke(d)
    \/ Sleep

SpecPeriodic == InitPeriodic /\ [][NextPeriodic]_vars

TwoStarts == timer.n >= 2

(* C32: a periodic task is invoked immediately when it is registered, and   *)
(* after an invocation that took d time units it sleeps max(0, interval -   *)
(* d) before the next invocation, so that invocation starts are one         *)
(* interval apart whenever d <= interval                                    *)
C32_DriftCorrected ==
    /\ timer.n >= 1 /\ ~TwoStarts => timer.start = timer.at
    /\ (TwoStarts /\ timer.dprev <= timer.time) => timer.start - timer.prev = timer.time

(* the starts are the interval and the duration of the body apart *)
StartsDrift ==
    TwoStarts => timer.start - timer.prev = timer.time + timer.dprev

(* the first invocation starts at the time of the registration *)
FirstInvocationStep ==
    (timer.n = 0 /\ timer'.n = 1) =>
        /\ timer'.start = timer.clock
        /\ timer.wake = timer.clock

InvokedAtOnce == [][FirstInvocationStep]_vars

(* the sleep is the whole interval, whatever the body took *)
SleepStep ==
    (timer'.n = timer.n + 1) => timer'.wake - timer'.clock = timer.time

SleepsWholeInterval == [][SleepStep]_vars

DriftReached == TwoStarts /\ timer.dprev = 1 /\ timer.start - timer.prev = timer.time + 1

----------------------------------------------------------------------------
(* The index generate_index makes of a log *)

(* the session holds an index that generate_index made of the file *)
Generated == rd.phase # "none" /\ rd.idx.has_ts /\ rd.where # "enter"

Ascending(list) == \A j, k \in DOMAIN list : j < k => list[j] < list[k]

Elements(list) == {list[k] : k \in DOMAIN list}

StartsOf(file, m) == {start(file, i) : i \in {j \in DOMAIN file : file[j].mgid = m}}

Listed(offs, pos) ==
    Cardinality({e \in {<<m, k>> : m \in DOMAIN offs, k \in 1..MaxRecords + 1} :
                    e[2] \in DOMAIN offs[e[1]] /\ offs[e[1]][e[2]] = pos})

(* C33: generate_index produces, for every type id occurring in the log,    *)
(* the list of byte offsets of exactly the records of that type in strictly *)
(* ascending order; every record start of the file appears in exactly one   *)
(* list; the offsets advance by header size + payload size + footer size    *)
(* per record; and the stored sentinel is the timestamp of the first record *)
C33_IndexExact ==
    Generated =>
        /\ DOMAIN rd.idx.offs = {disk[i].mgid : i \in DOMAIN disk}
        /\ \A m \in DOMAIN rd.idx.offs :
              /\ Ascending(rd.idx.offs[m])
              /\ Elements(rd.idx.offs[m]) = StartsOf(disk, m)
        /\ \A i \in DOMAIN disk : Listed(rd.idx.offs, start(disk, i)) = 1
        /\ \A i \in DOMAIN disk :
              i < Len(disk) =>
                  Listed(rd.idx.offs, start(disk, i) + HeaderSize + Len(disk[i].payload)
                                          + FooterSize) = 1
        /\ rd.idx.ts = disk[1].timestamp

(* an index of three records, two of them of one type and of different sizes *)
C33_Witness ==
    /\ Generated
    /\ Len(disk) = 3
    /\ disk[1].mgid = 2 /\ disk[2].mgid = 1 /\ disk[3].mgid = 2
    /\ rd.idx.offs[2] = <<0, HeaderSize + 1 + FooterSize + HeaderSize + FooterSize>>
    /\ disk[1].timestamp = 2

----------------------------------------------------------------------------
(* Damaged logs: a header without the sync number, a file cut inside its    *)
(* last record                                                              *)

(* a record of type 1 whose header does not start with the sync number *)
Corrupt == {[Record(1, 1, PayloadOf(1), FALSE) EXCEPT !.sync = FALSE]}

Whole(file) == \A i \in DOMAIN file : file[i].lost = 0

(* a record is appended to a log that has not been cut *)
WriteWhole(r) ==
    /\ Whole(disk)
    /\ WriteRecord(r)

(* the file loses its last k bytes, fewer than its last record has *)
CutTail(k) ==
    /\ Quiet
    /\ disk # <<>>
    /\ Whole(disk)
    /\ k < FullLen(disk[Len(disk)])
    /\ disk' = [disk EXCEPT ![Len(disk)].lost = k]
    /\ UNCHANGED <<regVars, schedVars, stack, seen, sendVars, cut, side, rd, archive, merged, auxVars>>

Cuts == 1..(HeaderSize + FooterSize)

InitDamaged ==
    /\ RegistryIdle
    /\ SchedIdle
    /\ IoIdle

NextDamaged ==
    \/ \E r \in Written \cup Corrupt : WriteWhole(r)
    \/ \E k \in Cuts : CutTail(k)
    \/ \E types \in Types, use_index \in BOOLEAN : Open(types, use_index, FALSE)
    \/ ReadNext
    \/ Close
    \/ Discard

SpecDamaged == InitDamaged /\ [][NextDamaged]_vars

(* the records without sync number that the read of the session comes to:   *)
(* every one in a scan, the ones of the requested types in a read by index  *)
Met ==
    {i \in DOMAIN disk :
        /\ ~disk[i].sync
        /\ rd.mode = "index" => InList(disk[i].mgid, rd.types.ids)}

FirstMet == CHOOSE i \in Met : \A j \in Met : i <= j

(* C35: once a read encounters a record header whose sync marker is         *)
(* invalid, it emits a diagnostic and yields no further record from that    *)
(* read: it never scans forward to resynchronise on a later valid marker.   *)
(* Stated for logs of whole records: nothing at or behind the first such    *)
(* record is decoded, and a read that has ended normally has warned.        *)
C35_NoResync ==
    (rd.started /\ Whole(disk) /\ Met # {}) =>
        /\ \A pos \in rd.decoded : pos < start(disk, FirstMet)
        /\ Len(rd.out) <= FirstMet - 1
        /\ rd.exhausted => rd.warned

(* a scan of three records has ended at the second, which has no sync       *)
(* number, with the first record returned and the third never looked at     *)
C35_Witness ==
    /\ rd.started /\ rd.mode = "scan" /\ rd.exhausted /\ rd.warned
    /\ Len(disk) = 3 /\ Whole(disk)
    /\ disk[1].sync /\ ~disk[2].sync /\ disk[3].sync
    /\ rd.out = <<Msg(disk[1])>>

(* in every log, damaged or not: the warning ends the read *)
WarnedEndsRead == rd.warned => rd.exhausted

(* the log ends inside its last record; every header in it is intact *)
EndsInsideRecord ==
    /\ disk # <<>>
    /\ disk[Len(disk)].lost > 0
    /\ \A i \in DOMAIN disk : disk[i].sync

HeaderCut == disk[Len(disk)].lost > Len(disk[Len(disk)].payload) + FooterSize

(* C36: a read of a log that ends inside a record (a short header, or a     *)
(* payload/footer shorter than the header's payload size announces,         *)
(* whether or not that record's type is requested) ends with an error       *)
(* outcome and never terminates the same way as a read that reached a       *)
(* clean end of file.  The warning of the sync check is counted as an       *)
(* error outcome here.                                                      *)
C36_TruncationIsError ==
    (rd.started /\ EndsInsideRecord) => (rd.exhausted => rd.warned)

(* a scan that comes to a cut record with a whole header, of a type that    *)
(* is asked for, ends with an exception                                     *)
CutRequestedRaises ==
    (/\ rd.started /\ rd.mode = "scan" /\ EndsInsideRecord /\ ~HeaderCut
     /\ (rd.types.filter => InList(disk[Len(disk)].mgid, rd.types.ids)))
        => ~rd.exhausted

(* a scan that comes to a cut header behind a whole record ends with the    *)
(* warning of the sync check, and with no exception                         *)
CutHeaderWarns ==
    (/\ rd.started /\ rd.mode = "scan" /\ EndsInsideRecord /\ HeaderCut
     /\ Len(disk) >= 2 /\ rd.exhausted)
        => rd.warned

(* a scan for type 1 has ended like at a clean end of file, with no         *)
(* exception and no warning, in a log whose last record, of type 2, has     *)
(* lost its payload and footer                                              *)
SilentEnd ==
    /\ rd.started /\ rd.mode = "scan" /\ rd.exhausted /\ ~rd.warned /\ rd.err = ""
    /\ rd.types = Filter(<<1>>)
    /\ Len(disk) = 2 /\ disk[1].mgid = 1 /\ disk[2].mgid = 2
    /\ disk[2].lost = 1 + FooterSize
    /\ rd.out = <<Msg(disk[1])>>

(* the index of a log that ends in a cut header: an entry under the key 0,  *)
(* read from the bytes before the end                                       *)
BogusIndexEntry ==
    /\ Generated /\ EndsInsideRecord /\ HeaderCut
    /\ 0 \in DOMAIN rd.idx.offs
    /\ rd.idx.offs[0] = <<FileLen(disk) - HeaderSize>>


(* ---------------------------------------------------------------------- *)
(* Reads by index over the lists of types a caller can pass                 *)
(* ---------------------------------------------------------------------- *)

(* The lists of LSFReader.read(path, types=...): the ones of TypeLists, a   *)
(* list that names a type twice and lists with a type that may be absent    *)
(* from the log.  The index is generated by every session (save_index is    *)
(* False), so it always describes the file that is read.                    *)
RequestLists == TypeLists \cup {<<1, 1>>, <<1, 2, 1>>}
Requests == {NoFilter} \cup {Filter(ids) : ids \in RequestLists}

InitRequest ==
    /\ RegistryIdle
    /\ SchedIdle
    /\ IoIdle

NextRequest ==
    \/ \E r \in Written : WriteRecord(r)
    \/ \E types \in Requests : Open(types, TRUE, FALSE)
    \/ ReadNext
    \/ Close
    \/ Discard

SpecRequest == InitRequest /\ [][NextRequest]_vars

NoDuplicates(ids) == \A i, j \in DOMAIN ids : ids[i] = ids[j] => i = j

(* what the session has to return: the records of the requested types, or   *)
(* all records when no types are given, each once and in file order         *)
Expected ==
    IF rd.types.filter THEN Requested(disk, rd.types.ids, 1) ELSE Msgs(disk)

(* a session of LSFReader.read(path, types, use_index=True) that has begun  *)
(* to read                                                                  *)
ReadWithIndex == rd.phase # "none" /\ rd.use_index /\ rd.started

(* C34: a read with index for a requested list of type ids (or none,        *)
(* meaning all types) yields each record of a requested type exactly once   *)
(* in ascending offset order, also when the request names a type more than  *)
(* once or names a type absent from the log.  Stated for the requests that  *)
(* name at least one type and for the request without types.                *)
C34_EachRecordOnce ==
    (ReadWithIndex /\ (rd.types.filter => rd.types.ids # <<>>)) =>
        /\ rd.where # "read"
        /\ IsPrefix(rd.out, Expected)
        /\ rd.exhausted => rd.out = Expected

(* the same for the requests that name at least one type and none twice,    *)
(* and for the request without types                                        *)
DistinctRequestReadOnce ==
    (ReadWithIndex /\ (rd.types.filter => (rd.types.ids # <<>> /\ NoDuplicates(rd.types.ids))))
        => (/\ rd.where # "read"
            /\ IsPrefix(rd.out, Expected)
            /\ rd.exhausted => rd.out = Expected)

(* the positions the read goes through never decrease, whatever the list    *)
VisitsAscending ==
    (ReadWithIndex /\ rd.mode = "index") =>
        \A i, j \in DOMAIN rd.rest : i < j => rd.rest[i] <= rd.rest[j]

(* a type named n times has each of its records returned n times *)
RECURSIVE TimesNamed(_, _)
TimesNamed(m, ids) ==
    IF ids = <<>> THEN 0
    ELSE (IF Head(ids) = m THEN 1 ELSE 0) + TimesNamed(m, Tail(ids))

TimesReturned(i) ==
    Cardinality({k \in DOMAIN rd.out : rd.out[k] = Msg(disk[i])})

SameMessage(i) == {j \in DOMAIN disk : Msg(disk[j]) = Msg(disk[i])}

ReturnedOncePerNaming ==
    (ReadWithIndex /\ rd.mode = "index" /\ rd.exhausted) =>
        \A i \in DOMAIN disk :
            TimesReturned(i) = TimesNamed(disk[i].mgid, rd.types.ids) * Cardinality(SameMessage(i))

(* a record returned twice by one read *)
ReturnedTwice ==
    /\ ReadWithIndex /\ rd.exhausted
    /\ rd.types.ids = <<1, 1>>
    /\ Len(disk) = 2 /\ disk[1].mgid = 1 /\ disk[2].mgid = 2
    /\ Len(rd.out) = 2 /\ rd.out[1] = rd.out[2]

(* a type absent from the log adds nothing to the read *)
AbsentTypeAddsNothing ==
    /\ ReadWithIndex /\ rd.exhausted
    /\ rd.types.ids = <<2, 1>>
    /\ Len(disk) = 2 /\ \A i \in DOMAIN disk : disk[i].mgid = 1
    /\ rd.out = Msgs(disk)

(* an empty list of types makes the read by index raise TypeError *)
EmptyRequestRaises ==
    (ReadWithIndex /\ rd.types.filter /\ rd.types.ids = <<>>) =>
        (rd.where = "read" /\ rd.err = "TypeError")


(* ---------------------------------------------------------------------- *)
(* merge and a gzip archive without its end marker                          *)
(* ---------------------------------------------------------------------- *)

(* merge was run over the log and an archive whose stream ends before the   *)
(* end marker; archive.recs are the records that lie completely before the  *)
(* end of the stream.  The plain log itself reads without an exception.     *)
TruncatedGzMerged ==
    /\ merged.called
    /\ archive.exists
    /\ ~archive.eof
    /\ read_lsf(disk, side).err = ""

(* C37: when a gzip-compressed input of merge ends unexpectedly, merge does *)
(* not fail and does not discard the file: every record that lies           *)
(* completely before the truncation point is in the merged output.          *)
C37_TruncatedGzSalvaged ==
    TruncatedGzMerged =>
        /\ merged.written
        /\ merged.err = ""
        /\ \A i \in DOMAIN archive.recs :
              \E k \in DOMAIN merged.recs : merged.recs[k] = Msg(archive.recs[i])

(* what merge does instead: the handler of EOFError raises before the       *)
(* incremental decompression is tried, and nothing is written               *)
TruncatedGzFailsMerge ==
    TruncatedGzMerged =>
        /\ ~merged.written
        /\ merged.err = "UnboundLocalError"
        /\ merged.recs = <<>>

(* such a merge next to a log of two records, none of which is written *)
TruncatedGzReached ==
    /\ TruncatedGzMerged
    /\ Len(disk) = 2
    /\ archive.recs # <<>>
    /\ ~merged.written

(* an archive with its end marker is merged *)
WholeGzMerged ==
    (merged.called /\ archive.exists /\ archive.eof /\ archive.recs # <<>>
     /\ read_lsf(disk, side).err = "" /\ AllWritten(archive.recs))
        => (merged.written /\ Len(merged.recs) = Len(disk) + Len(archive.recs))


(* ---------------------------------------------------------------------- *)
(* The read by index against the scan of the same request                   *)
(* ---------------------------------------------------------------------- *)

(* list(r.read_message(types)) of a reader without index: the branch "Read  *)
(* file without index" run to its end                                       *)
RECURSIVE scan_list(_, _, _)
scan_list(file, pos, types) ==
    LET r == scan_next(file, pos, types) IN
    IF r.kind = "yield"
    THEN LET more == scan_list(file, r.pos, types) IN
         [err |-> more.err, msgs |-> <<r.msg>> \o more.msgs]
    ELSE [err |-> r.err, msgs |-> <<>>]

(* a session that reads a log of serialized messages with use_index=True    *)
(* and a list of types, __enter__ having passed                             *)
IndexedRequest ==
    /\ rd.phase # "none"
    /\ rd.use_index
    /\ rd.types.filter
    /\ rd.started
    /\ AllWritten(disk)

(* the records read so far are the first ones of the scan, and all of them  *)
(* once the read has ended                                                  *)
AsScanned ==
    LET s == scan_list(disk, 0, rd.types) IN
    /\ rd.where # "read"
    /\ s.err = ""
    /\ IsPrefix(rd.out, s.msgs)
    /\ rd.exhausted => rd.out = s.msgs

(* C39: for a well-formed log and any set of requested message types, the   *)
(* sequence of records yielded by a read that uses the index equals the     *)
(* sequence yielded by the forward scan without index.                      *)
C39_IndexEqualsScan == IndexedRequest => AsScanned

(* the two agree when at least one type is requested and the index held     *)
(* describes the file                                                       *)
IndexEqualsScanIfValid ==
    (IndexedRequest /\ rd.types.ids # <<>> /\ ValidIndex) => AsScanned

(* a request for no type at all: the scan yields nothing, the read by index *)
(* raises TypeError on a generated index                                    *)
EmptyRequestDiffers ==
    (IndexedRequest /\ rd.types.ids = <<>> /\ rd.idx.has_ts) =>
        /\ scan_list(disk, 0, rd.types) = [err |-> "", msgs |-> <<>>]
        /\ rd.where = "read"
        /\ rd.err = "TypeError"

(* with an index loaded from the side file the same request yields records  *)
EmptyRequestYields ==
    /\ IndexedRequest
    /\ rd.types.ids = <<>>
    /\ ~rd.idx.has_ts
    /\ rd.exhausted
    /\ rd.out # <<>>
    /\ scan_list(disk, 0, rd.types).msgs = <<>>

(* an index stored before the log grew: its sentinel still matches, and the *)
(* read by index ends before the records the scan goes on to                *)
GrownLogDiffers ==
    /\ IndexedRequest
    /\ rd.types.ids # <<>>
    /\ ~ValidIndex
    /\ rd.exhausted
    /\ Len(rd.out) < Len(scan_list(disk, 0, rd.types).msgs)


(* ---------------------------------------------------------------------- *)
(* DynamicActor.query_entity_list, the task of @Periodic(30)                *)
(* ---------------------------------------------------------------------- *)

QueryInterval == 30

(* the instance attributes of a DynamicActor: the ones IMCBase.__init__     *)
(* and DynamicActor.__init__ assign; neither class defines a property       *)
ActorAttributes ==
    {"imc_id", "static_port", "verbose_nodes", "log_enable", "log_root", "announce",
     "entities", "services", "_loop", "_task_mc", "_task_imc", "_subs", "_port_imc",
     "_port_mc", "_nodes", "_static_transports", "t_start", "log_dir", "log_imc_fh",
     "log_console_fh", "log_level", "heartbeat"}

(* DynamicActor.query_entity_list.  The loop is over self.nodes.items():    *)
(* the lookup of an attribute the actor does not have raises                *)
(* AttributeError before the first node is looked at.  With the attribute   *)
(* the first node without entities is passed to self.send, whose exception  *)
(* ends the loop; a send that returns lets the loop go on.                  *)
RECURSIVE query_each(_, _, _, _, _)
query_each(ns, remaining, interfaces, transports, t) ==
    IF remaining = {} THEN [result |-> "returned", queried |-> {}]
    ELSE LET k == CHOOSE x \in remaining : TRUE
             s == send(ns, IdTuple(k[1], k[2]), Unsent(0), TRUE, interfaces, transports, t)
         IN IF s.result # "returned" THEN [result |-> s.result, queried |-> {}]
            ELSE LET more == query_each(ns, remaining \ {k}, interfaces, transports, t)
                 IN [result |-> more.result, queried |-> {k} \cup more.queried]

query_entity_list(attrs, ns, interfaces, transports, t) ==
    IF "nodes" \notin attrs THEN [result |-> "AttributeError", queried |-> {}]
    ELSE query_each(ns, {k \in DOMAIN ns : ns[k].entities = NoEntities},
                    interfaces, transports, t)

(* one turn of periodic_fn for query_entity_list: fn() and, when fn()       *)
(* returned, asyncio.sleep(30).  fn() stands in no try: its exception ends  *)
(* the coroutine and with it the task.                                      *)
QueryEntityList ==
    /\ timer.registered
    /\ ~timer.done
    /\ timer.clock = timer.wake
    /\ timer.n < MaxCycles
    /\ LET r == query_entity_list(ActorAttributes, nodes, {Lo, Eth0}, <<>>, now) IN
       timer' = [timer EXCEPT
                   !.n = timer.n + 1,
                   !.prev = timer.start,
                   !.start = timer.clock,
                   !.result = r.result,
                   !.queried = r.queried,
                   !.without = {k \in DOMAIN nodes : nodes[k].entities = NoEntities},
                   !.done = (r.result # "returned"),
                   !.wake = IF r.result = "returned"
                            THEN timer.clock + sleep_time(timer.time, 0)
                            ELSE timer.wake]
    /\ UNCHANGED <<regVars, schedVars, stack, seen, logVars, sendVars>>

InitQuery ==
    /\ RegistryIdle /\ SchedIdle /\ SerialIdle /\ LogIdle /\ SendIdle
    /\ timer = [NoTimer EXCEPT !.time = QueryInterval]

NextQuery ==
    \/ \E src \in EntityPeers : RecvAnnounce(src, LocalName, SvcGood)
    \/ \E src \in EntityPeers, list \in EntityLists : RecvEntityList(src, "REPORT", list)
    \/ AddEvent
    \/ QueryEntityList

SpecQuery == InitQuery /\ [][NextQuery]_vars

(* the task has run at least once *)
QueryRan == timer.n > 0

(* C38: each run of query_entity_list sends one EntityList QUERY to every   *)
(* node of the node map whose entities map is empty and none to a node      *)
(* that has entities, and the task goes on recurring every 30 seconds.      *)
C38_QueriesNodesWithoutEntities ==
    QueryRan =>
        /\ timer.result = "returned"
        /\ timer.queried = timer.without
        /\ ~timer.done
        /\ timer.wake = timer.start + QueryInterval

(* what a run does: it raises AttributeError, no node is sent a QUERY, and  *)
(* the task has ended                                                       *)
QueryRunRaises ==
    QueryRan =>
        /\ timer.result = "AttributeError"
        /\ timer.queried = {}
        /\ timer.done

(* the task runs once: in the first turn of the loop after the registration *)
QueryRunsOnce == timer.n <= 1 /\ (QueryRan => timer.start = timer.at)

(* a node without entities was in the map at the run and got no QUERY *)
QueryLost ==
    /\ QueryRan
    /\ timer.without # {}
    /\ timer.queried = {}
    /\ \E k \in DOMAIN nodes : nodes[k].entities # NoEntities


(* ---------------------------------------------------------------------- *)
(* self.send with a node id that does not resolve                           *)
(* ---------------------------------------------------------------------- *)

(* nodes that share an address or a name, each with an endpoint in a local  *)
(* network, and the ids a caller passes: an address two of them have, a     *)
(* name two of them have, keys in the map and a key that is not             *)
RouteKeys == {<<1, "a">>, <<1, "b">>, <<2, "a">>}
RouteNodes ==
    {[IMCNode(k[1], k[2], TRUE) EXCEPT
        !.services = UdpServices(<<Endpoint("10.0.0.2", 6002)>>)] : k \in RouteKeys}
RouteIds ==
    {IdInt(1), IdInt(2), IdStr("a"), IdStr("b"), IdTuple(1, "a"), IdTuple(2, "b")}

InitRoute == RegistryIdle /\ SchedIdle /\ IoIdle

NextRoute ==
    \/ \E node \in RouteNodes : Provision(node)
    \/ \E node_id \in RouteIds, timestamp \in Stamps, set_timestamp \in BOOLEAN,
          interfaces \in InterfaceChoices, transports \in StaticChoices :
          BaseSend(node_id, timestamp, set_timestamp, interfaces, transports)
    \/ Sent

SpecRoute == InitRoute /\ [][NextRoute]_vars

(* a call of self.send whose node id does not resolve in the node map *)
FailedSendStep ==
    /\ sender.call = "none"
    /\ sender'.call = "send"
    /\ resolve_node_id(nodes, sender'.id).kind # "node"

C40_FailedSendStep ==
    FailedSendStep =>
        /\ sender'.result = resolve_node_id(nodes, sender'.id).kind
        /\ sender'.result \in {"KeyError", "AmbiguousKeyError"}
        /\ sender'.sent = <<>>
        /\ sender'.logged = 0
        /\ nodes' = nodes
        /\ static_transports' = static_transports

(* C40: if node resolution fails inside send (unknown or ambiguous node     *)
(* id), send raises KeyError or AmbiguousKeyError to its caller without     *)
(* transmitting the message to any node endpoint or to any static           *)
(* transport, and the node map is unchanged.                                *)
C40_FailedSendRaises == [][C40_FailedSendStep]_vars

(* an ambiguous address with two nodes in the map and a static destination  *)
(* at hand: AmbiguousKeyError, and nothing went out                         *)
C40_Witness ==
    /\ sender.call = "send"
    /\ sender.id = IdInt(1)
    /\ sender.result = "AmbiguousKeyError"
    /\ sender.transports # <<>>
    /\ {<<1, "a">>, <<1, "b">>} \subseteq DOMAIN nodes
    /\ sender.sent = <<>>

(* an unknown key beside nodes in the map: KeyError, and nothing went out *)
UnknownSendReached ==
    /\ sender.call = "send"
    /\ sender.id = IdTuple(2, "b")
    /\ sender.result = "KeyError"
    /\ sender.transports # <<>>
    /\ DOMAIN nodes = RouteKeys
    /\ sender.sent = <<>>

(* the message handed to a send that failed has been stamped all the same *)
FailedSendStamps ==
    (sender.call = "send" /\ sender.node = <<>>) =>
        /\ sender.msg.src = imc_id
        /\ sender.set_timestamp => sender.msg.timestamp = sender.t

====
